---- MODULE Spec2Model ----
(***************************************************************************)
(* WasmVOWL: the graph data model (VowlGraph), the ontology-to-graph       *)
(* builder (GraphBuilder) and the force-directed layout (ForceSimulation). *)
(*                                                                         *)
(* Numbers.  f64 coordinates, velocities and force coefficients are        *)
(* fixed-point integers with PS units per 1.0; alpha, alpha_decay and      *)
(* alpha_min are fixed-point integers with AS units per 1.0.  A petgraph   *)
(* NodeIndex i is the position i+1 in the sequence of node weights.        *)
(***************************************************************************)
EXTENDS Integers, Sequences, FiniteSets, TLC

VARIABLES graph, sim, result, ticks, onto, built, left

vars == <<graph, sim, result, ticks, onto, built, left>>

(***************************************************************************)
(* Bounds of the model                                                     *)
(***************************************************************************)
MaxEdges == 3
MaxLayoutEdges == 2
MaxTicks == 1
MaxClasses == 3
MaxProperties == 2
MaxSimTicks == 3
MaxDecayTicks == 302
MaxRunStart == 1
MaxPower == 40
MaxForceTicks == 1
MaxWebTicks == 2

(***************************************************************************)
(* Option and Result values                                                *)
(***************************************************************************)
None == [some |-> FALSE]
Some(v) == [some |-> TRUE, val |-> v]
Ok(v) == [ok |-> TRUE, val |-> v]
Err(msg) == [ok |-> FALSE, err |-> msg]

AlreadyExists == "already exists"
NotFound == "not found"

(***************************************************************************)
(* Small helpers                                                           *)
(***************************************************************************)
RECURSIVE GCD(_, _)
GCD(a, b) == IF b = 0 THEN a ELSE GCD(b, a % b)

\* The value of the f64 quotient n / d of two small counts, kept exact.
Quotient(n, d) == [num |-> n \div GCD(n, d), den |-> d \div GCD(n, d)]

MaxOf(S) == IF S = {} THEN 0 ELSE CHOOSE m \in S : \A k \in S : k <= m

(***************************************************************************)
(* f64 arithmetic in fixed point.  NaN is the one non-number a computation *)
(* of the layout can produce (0.0 / 0.0); every operation propagates it    *)
(* and every comparison with it is false, as in IEEE 754.                  *)
(***************************************************************************)
PS == 100
\* alpha, alpha_decay and alpha_min carry eight decimal places: Limb * Limb units
\* per 1.0
Limb == 100 * PS
AS == 100000000
NaN == -2000000000

Abs(a) == IF a < 0 THEN -a ELSE a
Sgn(a) == IF a < 0 THEN -1 ELSE 1

\* a / d rounded to the nearest integer, for d > 0.
RDiv(a, d) == Sgn(a) * ((Abs(a) + d \div 2) \div d)

\* a * b / AS rounded to the nearest integer, for a, b >= 0, by limbs.
MulWide(a, b) ==
    LET a1 == a \div Limb
        a0 == a % Limb
        b1 == b \div Limb
        b0 == b % Limb
        m == a1 * b0 + a0 * b1
    IN  a1 * b1 + (m \div Limb) + (((m % Limb) * Limb + a0 * b0 + AS \div 2) \div AS)

\* a * b / s rounded to the nearest integer, without forming a * b.
MulDiv(a, b, s) ==
    IF s = AS THEN Sgn(a) * Sgn(b) * MulWide(Abs(a), Abs(b))
    ELSE Sgn(a) * Sgn(b) * ((Abs(a) \div s) * Abs(b) + RDiv((Abs(a) % s) * Abs(b), s))

FAdd(a, b) == IF a = NaN \/ b = NaN THEN NaN ELSE a + b
FSub(a, b) == IF a = NaN \/ b = NaN THEN NaN ELSE a - b
\* the product of a and b, b a number with s units per 1.0
FMul(a, b, s) == IF a = NaN \/ b = NaN THEN NaN ELSE MulDiv(a, b, s)

VAdd(u, v) == <<FAdd(u[1], v[1]), FAdd(u[2], v[2])>>
VSub(u, v) == <<FSub(u[1], v[1]), FSub(u[2], v[2])>>
VMul(u, b, s) == <<FMul(u[1], b, s), FMul(u[2], b, s)>>
VNaN(u) == u[1] = NaN \/ u[2] = NaN

RECURSIVE SqrtIn(_, _, _)
\* the largest r in lo..hi with r * r <= n
SqrtIn(n, lo, hi) ==
    IF lo >= hi THEN lo
    ELSE LET mid == (lo + hi + 1) \div 2
         IN  IF mid * mid <= n THEN SqrtIn(n, mid, hi) ELSE SqrtIn(n, lo, mid - 1)

ISqrt(n) == SqrtIn(n, 0, 46340)

NormLimit == 300 * PS

RECURSIVE Norm(_)
\* |u| of a vector without NaN
Norm(u) ==
    IF Abs(u[1]) <= NormLimit /\ Abs(u[2]) <= NormLimit
    THEN LET n2 == u[1] * u[1] + u[2] * u[2]
             r == ISqrt(n2)
         IN  IF n2 - r * r > r THEN r + 1 ELSE r
    ELSE 64 * Norm(<<RDiv(u[1], 64), RDiv(u[2], 64)>>)

RECURSIVE Unit(_)
\* u / |u| of a nonzero vector without NaN, Limb units per 1.0
Unit(u) ==
    IF Abs(u[1]) <= NormLimit /\ Abs(u[2]) <= NormLimit
    THEN LET n == Norm(u)
         IN  <<RDiv(u[1] * Limb, n), RDiv(u[2] * Limb, n)>>
    ELSE Unit(<<RDiv(u[1], 64), RDiv(u[2], 64)>>)

\* sin of an angle in whole degrees, PS units per 1.0 (Bhaskara's approximation)
Sin(deg) ==
    LET d == deg % 360
        h == IF d >= 180 THEN d - 180 ELSE d
        t == h * (180 - h)
        v == RDiv(4 * t * PS, 40500 - t)
    IN  IF d >= 180 THEN -v ELSE v

Cos(deg) == Sin(deg + 90)

\* the whole degrees of an angle of r radians, r in PS units per 1.0
Degrees(r) == RDiv((r % 628) * 180, 314)

(***************************************************************************)
(* Data model                                                              *)
(***************************************************************************)
Ids == {"a", "b", "c"}

Class == [tag |-> "Class"]
Datatype == [tag |-> "Datatype"]
Special(name) == [tag |-> "Special", name |-> name]

VisualDefault ==
    [x |-> 0, y |-> 0, vx |-> 0, vy |-> 0, fixed |-> FALSE, weight |-> 0, color |-> None]

SemanticDefault == [iri |-> "", external |-> FALSE]

Node(id, label, node_type, visual, semantic) ==
    [id |-> id, label |-> label, node_type |-> node_type, visual |-> visual,
     semantic |-> semantic]

ObjectProperty == [tag |-> "ObjectProperty"]
DatatypeProperty == [tag |-> "DatatypeProperty"]
SubClass == [tag |-> "SubClass"]

CharacteristicsDefault ==
    [functional |-> FALSE, inverse_functional |-> FALSE, transitive |-> FALSE,
     symmetric |-> FALSE, cardinality |-> None]

Edge(id, label, edge_type, characteristics) ==
    [id |-> id, label |-> label, edge_type |-> edge_type,
     characteristics |-> characteristics]

MetadataDefault ==
    [class_count |-> 0, property_count |-> 0, max_degree |-> 0, density |-> Quotient(0, 1)]

\* VowlGraph::new
NewGraph ==
    [nodes |-> << >>, edges |-> << >>, node_map |-> << >>, metadata |-> MetadataDefault]

(***************************************************************************)
(* VowlGraph                                                               *)
(***************************************************************************)
node_count(g) == Len(g.nodes)

edge_count(g) == Len(g.edges)

contains_key(g, id) == id \in DOMAIN g.node_map

add_node_overwrite(g, node) ==
    IF contains_key(g, node.id)
    THEN [graph |-> [g EXCEPT !.nodes[g.node_map[node.id]] = node],
          res |-> Ok(g.node_map[node.id])]
    ELSE [graph |-> [g EXCEPT !.nodes = Append(g.nodes, node),
                              !.node_map = [i \in (DOMAIN g.node_map) \cup {node.id} |->
                                               IF i = node.id THEN Len(g.nodes) + 1
                                               ELSE g.node_map[i]]],
          res |-> Ok(Len(g.nodes) + 1)]

add_node_unchecked(g, node) ==
    [graph |-> [g EXCEPT !.nodes = Append(g.nodes, node),
                         !.node_map = [i \in (DOMAIN g.node_map) \cup {node.id} |->
                                          IF i = node.id THEN Len(g.nodes) + 1
                                          ELSE g.node_map[i]]],
     res |-> Ok(Len(g.nodes) + 1)]

\* a node of a present id replaces the stored one, whose edges are dropped
add_node_replace(g, node) ==
    IF contains_key(g, node.id)
    THEN [graph |-> [g EXCEPT !.nodes[g.node_map[node.id]] = node,
                              !.edges = SelectSeq(g.edges,
                                  LAMBDA e : e.source # g.node_map[node.id]
                                             /\ e.target # g.node_map[node.id])],
          res |-> Ok(g.node_map[node.id])]
    ELSE add_node_unchecked(g, node)

\* a new node is stored in front of the others
add_node_front(g, node) ==
    IF contains_key(g, node.id)
    THEN [graph |-> g, res |-> Err(AlreadyExists)]
    ELSE [graph |-> [g EXCEPT !.nodes = <<node>> \o g.nodes,
                              !.node_map = [i \in (DOMAIN g.node_map) \cup {node.id} |->
                                               IF i = node.id THEN 1
                                               ELSE g.node_map[i] + 1],
                              !.edges = [k \in 1..Len(g.edges) |->
                                            [g.edges[k] EXCEPT !.source = @ + 1,
                                                               !.target = @ + 1]]],
          res |-> Ok(1)]

\* property_count is kept up to date by the insertion
add_edge_counting(g, from, to, edge) ==
    IF ~contains_key(g, from) THEN [graph |-> g, res |-> Err(NotFound)]
    ELSE IF ~contains_key(g, to) THEN [graph |-> g, res |-> Err(NotFound)]
    ELSE [graph |-> [g EXCEPT !.edges = Append(g.edges,
                         [weight |-> edge, source |-> g.node_map[from],
                          target |-> g.node_map[to]]),
                              !.metadata.property_count = Len(g.edges) + 1],
          res |-> Ok(TRUE)]

add_edge_lenient(g, from, to, edge) ==
    IF ~contains_key(g, from) THEN [graph |-> g, res |-> Err(NotFound)]
    ELSE [graph |-> [g EXCEPT !.edges = Append(g.edges,
                         [weight |-> edge, source |-> g.node_map[from],
                          target |-> IF contains_key(g, to) THEN g.node_map[to]
                                     ELSE g.node_map[from]])],
          res |-> Ok(TRUE)]

add_node(g, node) ==
    IF contains_key(g, node.id)
    THEN [graph |-> g, res |-> Err(AlreadyExists)]
    ELSE [graph |-> [g EXCEPT !.nodes = Append(g.nodes, node),
                              !.node_map = [i \in (DOMAIN g.node_map) \cup {node.id} |->
                                               IF i = node.id THEN Len(g.nodes) + 1
                                               ELSE g.node_map[i]]],
          res |-> Ok(Len(g.nodes) + 1)]

add_edge(g, from, to, edge) ==
    IF ~contains_key(g, from) THEN [graph |-> g, res |-> Err(NotFound)]
    ELSE IF ~contains_key(g, to) THEN [graph |-> g, res |-> Err(NotFound)]
    ELSE [graph |-> [g EXCEPT !.edges = Append(g.edges,
                         [weight |-> edge, source |-> g.node_map[from],
                          target |-> g.node_map[to]])],
          res |-> Ok(TRUE)]

get_node(g, id) ==
    IF contains_key(g, id) THEN Some(g.nodes[g.node_map[id]]) ELSE None

\* the handle of the node a caller may write through, as an index of nodes
get_node_mut(g, id) ==
    IF contains_key(g, id) THEN Some(g.node_map[id]) ELSE None

nodes(g) == g.nodes

edges(g) == [k \in 1..Len(g.edges) |-> g.edges[k].weight]

\* DiGraph::neighbors: the targets of the outgoing edges of idx, one per edge,
\* the most recently added edge first.
RECURSIVE incident(_, _, _)
\* the other end of every edge at idx, whatever its direction
incident(es, k, idx) ==
    IF k = 0 THEN << >>
    ELSE IF es[k].source = idx THEN <<es[k].target>> \o incident(es, k - 1, idx)
    ELSE IF es[k].target = idx THEN <<es[k].source>> \o incident(es, k - 1, idx)
    ELSE incident(es, k - 1, idx)

RECURSIVE outgoing(_, _, _)
outgoing(es, k, idx) ==
    IF k = 0 THEN << >>
    ELSE IF es[k].source = idx THEN <<es[k].target>> \o outgoing(es, k - 1, idx)
    ELSE outgoing(es, k - 1, idx)

graph_neighbors(g, idx) == outgoing(g.edges, Len(g.edges), idx)

neighbors(g, id) ==
    IF ~contains_key(g, id) THEN Err(NotFound)
    ELSE LET ns == graph_neighbors(g, g.node_map[id])
         IN  Ok([k \in 1..Len(ns) |-> g.nodes[ns[k]]])

degree(g, id) ==
    IF ~contains_key(g, id) THEN Err(NotFound)
    ELSE Ok(Len(graph_neighbors(g, g.node_map[id])))

\* every node is counted as a class
update_metadata_all_nodes(g) ==
    LET n == node_count(g)
        m == [g.metadata EXCEPT
                !.class_count = n,
                !.property_count = edge_count(g),
                !.max_degree = MaxOf({degree(g, id).val : id \in DOMAIN g.node_map})]
    IN  [g EXCEPT !.metadata =
            IF n > 1 THEN [m EXCEPT !.density = Quotient(edge_count(g), n * (n - 1))]
            ELSE m]

\* self-loops count as possible edges, so the density is written from one node on
update_metadata_with_loops(g) ==
    LET n == node_count(g)
        m == [g.metadata EXCEPT
                !.class_count = Cardinality({k \in 1..Len(g.nodes) :
                                                g.nodes[k].node_type = Class}),
                !.property_count = edge_count(g),
                !.max_degree = MaxOf({degree(g, id).val : id \in DOMAIN g.node_map})]
    IN  [g EXCEPT !.metadata =
            IF n > 0 THEN [m EXCEPT !.density = Quotient(edge_count(g), n * n)]
            ELSE m]

update_metadata(g) ==
    LET n == node_count(g)
        m == [g.metadata EXCEPT
                !.class_count = Cardinality({k \in 1..Len(g.nodes) :
                                                g.nodes[k].node_type = Class}),
                !.property_count = edge_count(g),
                !.max_degree = MaxOf({degree(g, id).val : id \in DOMAIN g.node_map})]
    IN  [g EXCEPT !.metadata =
            IF n > 1 THEN [m EXCEPT !.density = Quotient(edge_count(g), n * (n - 1))]
            ELSE m]

metadata(g) == g.metadata

(***************************************************************************)
(* GraphBuilder (graph/builder.rs), NodeBuilder and EdgeBuilder.  The name *)
(* of a special property is a sequence of characters.                      *)
(***************************************************************************)
SubclassWord == <<"s", "u", "b", "c", "l", "a", "s", "s">>
AnnotationWord == <<"a", "n", "n", "o", "t", "a", "t", "i", "o", "n">>

\* str::contains
Contains(name, word) ==
    \E i \in 0..(Len(name) - Len(word)) : SubSeq(name, i + 1, i + Len(word)) = word

map_node_type(class_type) ==
    IF class_type \in {"owl:Class", "rdfs:Class"} THEN Class
    ELSE IF class_type \in {"rdfs:Datatype", "xsd:*"} THEN Datatype
    ELSE Special(class_type)

\* the test for "subclass" disregards the case of S and C
map_edge_type_any_case(property_type) ==
    IF property_type.tag = "ObjectProperty" THEN ObjectProperty
    ELSE IF property_type.tag = "DatatypeProperty" THEN DatatypeProperty
    ELSE IF property_type.tag = "AnnotationProperty" THEN Special(AnnotationWord)
    ELSE IF Contains(property_type.name, SubclassWord)
            \/ Contains(property_type.name, <<"S", "u", "b", "C", "l", "a", "s", "s">>)
    THEN SubClass
    ELSE Special(property_type.name)

map_edge_type(property_type) ==
    IF property_type.tag = "ObjectProperty" THEN ObjectProperty
    ELSE IF property_type.tag = "DatatypeProperty" THEN DatatypeProperty
    ELSE IF property_type.tag = "AnnotationProperty" THEN Special(AnnotationWord)
    ELSE IF Contains(property_type.name, SubclassWord) THEN SubClass
    ELSE Special(property_type.name)

\* NodeBuilder::new(id).label(..).node_type(..).iri(..).external(..).build()
class_node(class) ==
    Node(class.id, class.label, map_node_type(class.class_type), VisualDefault,
         [iri |-> class.iri, external |-> class.external])

\* EdgeBuilder::new(id).label(..).edge_type(..), the flags that are set, build()
property_edge(property) ==
    LET c0 == CharacteristicsDefault
        c1 == IF property.characteristics.functional
              THEN [c0 EXCEPT !.functional = TRUE] ELSE c0
        c2 == IF property.characteristics.transitive
              THEN [c1 EXCEPT !.transitive = TRUE] ELSE c1
        c3 == IF property.characteristics.symmetric
              THEN [c2 EXCEPT !.symmetric = TRUE] ELSE c2
        c4 == IF property.characteristics.inverse_functional
              THEN [c3 EXCEPT !.inverse_functional = TRUE] ELSE c3
        c5 == IF property.characteristics.cardinality.some
              THEN [c4 EXCEPT !.cardinality = Some(property.characteristics.cardinality.val)]
              ELSE c4
    IN  Edge(property.id, property.label, map_edge_type(property.property_type), c5)

RECURSIVE add_classes(_, _, _)
\* the first loop of from_ontology from class k on: Ok(graph) or the first error
add_classes(g, classes, k) ==
    IF k > Len(classes) THEN Ok(g)
    ELSE LET r == add_node(g, class_node(classes[k]))
         IN  IF r.res.ok THEN add_classes(r.graph, classes, k + 1) ELSE r.res

RECURSIVE add_properties(_, _, _)
\* the second loop of from_ontology from property k on
add_properties(g, properties, k) ==
    IF k > Len(properties) THEN Ok(g)
    ELSE LET r == add_edge(g, properties[k].domain, properties[k].range,
                           property_edge(properties[k]))
         IN  IF r.res.ok THEN add_properties(r.graph, properties, k + 1) ELSE r.res

RECURSIVE add_properties_lenient(_, _, _)
add_properties_lenient(g, properties, k) ==
    IF k > Len(properties) THEN Ok(g)
    ELSE add_properties_lenient(add_edge(g, properties[k].domain, properties[k].range,
                                         property_edge(properties[k])).graph,
                                properties, k + 1)

from_ontology_lenient(data) ==
    LET c == add_classes(NewGraph, data.classes, 1)
    IN  IF ~c.ok THEN c
        ELSE Ok(update_metadata(add_properties_lenient(c.val, data.properties, 1).val))

from_ontology_edges_first(data) ==
    LET p == add_properties(NewGraph, data.properties, 1)
    IN  IF ~p.ok THEN p
        ELSE LET c == add_classes(p.val, data.classes, 1)
             IN  IF ~c.ok THEN c ELSE Ok(update_metadata(c.val))

from_ontology(data) ==
    LET c == add_classes(NewGraph, data.classes, 1)
    IN  IF ~c.ok THEN c
        ELSE LET p == add_properties(c.val, data.properties, 1)
             IN  IF ~p.ok THEN p ELSE Ok(update_metadata(p.val))

(***************************************************************************)
(* Forces (layout/force.rs)                                                *)
(***************************************************************************)
calculate_repulsion_unscaled(pos1, pos2, strength) ==
    LET delta == VSub(pos1, pos2)
    IN  IF VNaN(delta) THEN <<NaN, NaN>>
        ELSE IF Abs(delta[1]) < PS /\ Abs(delta[2]) < PS
                /\ (delta[1] * delta[1] + delta[2] * delta[2]) * 10000 < PS * PS
        THEN <<RDiv(Sin(Degrees(7 * (pos1[1] + pos2[1]))) * strength, 100 * PS),
               RDiv(Cos(Degrees(11 * (pos1[2] + pos2[2]))) * strength, 100 * PS)>>
        ELSE LET n == Norm(delta)
                 force_magnitude ==
                     IF n <= NormLimit
                     THEN RDiv(strength * PS * PS,
                               delta[1] * delta[1] + delta[2] * delta[2])
                     ELSE RDiv(RDiv(strength * PS * PS, n), n)
                 unit == Unit(delta)
             IN  <<MulDiv(force_magnitude, unit[1], Limb),
                   MulDiv(force_magnitude, unit[2], Limb)>>

calculate_repulsion(pos1, pos2, strength) ==
    LET delta == VSub(pos1, pos2)
    IN  IF VNaN(delta) THEN <<NaN, NaN>>
        ELSE IF Abs(delta[1]) < PS /\ Abs(delta[2]) < PS
                /\ (delta[1] * delta[1] + delta[2] * delta[2]) * 10000 < PS * PS
        THEN <<RDiv(Sin(Degrees(7 * (pos1[1] + pos2[1]))), 100),
               RDiv(Cos(Degrees(11 * (pos1[2] + pos2[2]))), 100)>>
        ELSE LET n == Norm(delta)
                 force_magnitude ==
                     IF n <= NormLimit
                     THEN RDiv(strength * PS * PS,
                               delta[1] * delta[1] + delta[2] * delta[2])
                     ELSE RDiv(RDiv(strength * PS * PS, n), n)
                 unit == Unit(delta)
             IN  <<MulDiv(force_magnitude, unit[1], Limb),
                   MulDiv(force_magnitude, unit[2], Limb)>>

\* a spring that only pulls
calculate_attraction_pull_only(pos1, pos2, target_distance, strength) ==
    LET delta == VSub(pos2, pos1)
    IN  IF VNaN(delta) \/ delta = <<0, 0>> THEN <<NaN, NaN>>
        ELSE LET n == Norm(delta)
                 distance == IF n * 10 > PS THEN n ELSE PS \div 10
                 displacement == Abs(distance - target_distance)
                 force_magnitude == MulDiv(displacement, strength, PS)
                 unit == Unit(delta)
             IN  <<MulDiv(force_magnitude, unit[1], Limb),
                   MulDiv(force_magnitude, unit[2], Limb)>>

calculate_attraction(pos1, pos2, target_distance, strength) ==
    LET delta == VSub(pos2, pos1)
    IN  IF VNaN(delta) \/ delta = <<0, 0>> THEN <<NaN, NaN>>
        ELSE LET n == Norm(delta)
                 distance == IF n * 10 > PS THEN n ELSE PS \div 10
                 displacement == distance - target_distance
                 force_magnitude == MulDiv(displacement, strength, PS)
                 unit == Unit(delta)
             IN  <<MulDiv(force_magnitude, unit[1], Limb),
                   MulDiv(force_magnitude, unit[2], Limb)>>

calculate_center_force(pos, center, strength) == VMul(VSub(center, pos), strength, PS)

(***************************************************************************)
(* ForceSimulation (layout/simulation.rs) and LayoutConfig (layout/mod.rs) *)
(***************************************************************************)
LayoutConfigCoarse ==
    [alpha |-> AS, alpha_decay |-> 228 * Limb, alpha_min |-> AS \div 100,
     velocity_decay |-> 60,
     link_distance |-> 30 * PS, link_strength |-> PS, charge_strength |-> -30 * PS,
     center_strength |-> PS, center |-> <<0, 0>>]

LayoutConfigDefault ==
    [alpha |-> AS, alpha_decay |-> 228 * Limb, alpha_min |-> AS \div 1000,
     velocity_decay |-> 60,
     link_distance |-> 30 * PS, link_strength |-> PS, charge_strength |-> -30 * PS,
     center_strength |-> PS, center |-> <<0, 0>>]

\* ForceSimulation::with_config; ForceSimulation::new is with_config(default)
with_config(config) == [config |-> config, alpha |-> config.alpha, iteration |-> 0]

set_center(s, x, y) == [s EXCEPT !.config.center = <<x, y>>]

set_link_distance(s, distance) == [s EXCEPT !.config.link_distance = distance]

set_charge_strength_and_restart(s, strength) ==
    [s EXCEPT !.config.charge_strength = strength, !.alpha = s.config.alpha]

set_charge_strength(s, strength) == [s EXCEPT !.config.charge_strength = strength]

is_finished(s) == s.alpha < s.config.alpha_min

Pos(node) == <<node.visual.x, node.visual.y>>

RECURSIVE place_unpinned(_, _, _, _)
\* the loop of initialize_positions if it passed over the fixed nodes
place_unpinned(ns, k, angle, angle_step) ==
    IF k > Len(ns) THEN ns
    ELSE IF ns[k].visual.x = 0 /\ ns[k].visual.y = 0 /\ ~ns[k].visual.fixed
    THEN place_unpinned([ns EXCEPT ![k].visual.x = MulDiv(10 * PS, Cos(angle), PS),
                                   ![k].visual.y = MulDiv(10 * PS, Sin(angle), PS)],
                        k + 1, angle + angle_step, angle_step)
    ELSE place_unpinned(ns, k + 1, angle, angle_step)

RECURSIVE place(_, _, _, _)
\* the loop of initialize_positions from node k on; angle in whole degrees
place(ns, k, angle, angle_step) ==
    IF k > Len(ns) THEN ns
    ELSE IF ns[k].visual.x = 0 /\ ns[k].visual.y = 0
    THEN place([ns EXCEPT ![k].visual.x = MulDiv(10 * PS, Cos(angle), PS),
                          ![k].visual.y = MulDiv(10 * PS, Sin(angle), PS)],
               k + 1, angle + angle_step, angle_step)
    ELSE place(ns, k + 1, angle, angle_step)

initialize_positions_by_index(g) ==
    IF node_count(g) = 0 THEN g
    ELSE [g EXCEPT !.nodes =
            [k \in 1..Len(g.nodes) |->
               IF g.nodes[k].visual.x = 0 /\ g.nodes[k].visual.y = 0
               THEN [g.nodes[k] EXCEPT
                       !.visual.x = MulDiv(10 * PS, Cos((k - 1) * (360 \div node_count(g))), PS),
                       !.visual.y = MulDiv(10 * PS, Sin((k - 1) * (360 \div node_count(g))), PS)]
               ELSE g.nodes[k]]]

initialize_positions(g) ==
    IF node_count(g) = 0 THEN g
    ELSE [g EXCEPT !.nodes = place(g.nodes, 1, 0, 360 \div node_count(g))]

RECURSIVE SumRepulsion(_, _, _, _)
\* the repulsion node i receives from the pairs (i, j) and (j, i), j from k on
SumRepulsion(ns, i, k, strength) ==
    IF k > Len(ns) THEN <<0, 0>>
    ELSE LET rest == SumRepulsion(ns, i, k + 1, strength)
         IN  IF k = i THEN rest
             ELSE IF i < k
             THEN VAdd(calculate_repulsion(Pos(ns[i]), Pos(ns[k]), strength), rest)
             ELSE VSub(rest, calculate_repulsion(Pos(ns[k]), Pos(ns[i]), strength))

RECURSIVE SumAttraction(_, _, _, _, _)
\* the attraction node i receives from its neighbors nb[k..]
SumAttraction(ns, i, nb, k, s) ==
    IF k > Len(nb) THEN <<0, 0>>
    ELSE VAdd(VMul(calculate_attraction(Pos(ns[i]), Pos(ns[nb[k]]),
                                        s.config.link_distance, s.config.link_strength),
                   s.alpha, AS),
              SumAttraction(ns, i, nb, k + 1, s))

\* The map of forces has one entry per id of nodes(); the entry of an id sums the
\* repulsion, attraction and centering terms of the node carrying it.
calculate_forces(s, g) ==
    [id \in {g.nodes[k].id : k \in 1..Len(g.nodes)} |->
        LET i == CHOOSE k \in 1..Len(g.nodes) : g.nodes[k].id = id
            nb == IF neighbors(g, id).ok THEN graph_neighbors(g, g.node_map[id]) ELSE << >>
        IN  VAdd(VAdd(SumRepulsion(g.nodes, i, 1, s.config.charge_strength),
                      SumAttraction(g.nodes, i, nb, 1, s)),
                 calculate_center_force(Pos(g.nodes[i]), s.config.center,
                                        s.config.center_strength))]

Integrate_and_pin(v, force, s) ==
    LET vx == FMul(FAdd(v.vx, FMul(force[1], s.alpha, AS)), s.config.velocity_decay, PS)
        vy == FMul(FAdd(v.vy, FMul(force[2], s.alpha, AS)), s.config.velocity_decay, PS)
    IN  [v EXCEPT !.vx = vx, !.vy = vy, !.x = FAdd(v.x, vx), !.y = FAdd(v.y, vy),
                  !.fixed = TRUE]

Integrate(v, force, s) ==
    LET vx == FMul(FAdd(v.vx, FMul(force[1], s.alpha, AS)), s.config.velocity_decay, PS)
        vy == FMul(FAdd(v.vy, FMul(force[2], s.alpha, AS)), s.config.velocity_decay, PS)
    IN  [v EXCEPT !.vx = vx, !.vy = vy, !.x = FAdd(v.x, vx), !.y = FAdd(v.y, vy)]

apply_forces_to_all(s, g, forces) ==
    [g EXCEPT !.nodes =
        [k \in 1..Len(g.nodes) |->
            LET hits == {id \in DOMAIN forces : contains_key(g, id) /\ g.node_map[id] = k}
            IN  IF hits # {}
                THEN [g.nodes[k] EXCEPT
                        !.visual = Integrate(@, forces[CHOOSE id \in hits : TRUE], s)]
                ELSE g.nodes[k]]]

\* Each entry (id, force) of the map updates the node get_node_mut(id) finds; the
\* update of a node reads that node and its own entry only.
apply_forces(s, g, forces) ==
    [g EXCEPT !.nodes =
        [k \in 1..Len(g.nodes) |->
            LET hits == {id \in DOMAIN forces : contains_key(g, id) /\ g.node_map[id] = k}
            IN  IF hits # {} /\ ~g.nodes[k].visual.fixed
                THEN [g.nodes[k] EXCEPT
                        !.visual = Integrate(@, forces[CHOOSE id \in hits : TRUE], s)]
                ELSE g.nodes[k]]]

RECURSIVE apply_forces_from_moved(_, _, _, _)
\* every node is moved by the force the nodes exert where they are by then
apply_forces_from_moved(s, g, forces, order) ==
    IF order = << >> THEN g
    ELSE LET node_id == Head(order)
             force == calculate_forces(s, g)[node_id]
             moved ==
                 IF contains_key(g, node_id) /\ ~g.nodes[g.node_map[node_id]].visual.fixed
                 THEN [g EXCEPT !.nodes[g.node_map[node_id]].visual = Integrate(@, force, s)]
                 ELSE g
         IN  apply_forces_from_moved(s, moved, forces, Tail(order))

RECURSIVE apply_forces_in_order(_, _, _, _)
\* the loop of apply_forces when the map yields its entries in the given order
apply_forces_in_order(s, g, forces, order) ==
    IF order = << >> THEN g
    ELSE LET node_id == Head(order)
             force == forces[node_id]
             moved ==
                 IF contains_key(g, node_id) /\ ~g.nodes[g.node_map[node_id]].visual.fixed
                 THEN [g EXCEPT !.nodes[g.node_map[node_id]].visual = Integrate(@, force, s)]
                 ELSE g
         IN  apply_forces_in_order(s, moved, forces, Tail(order))

initialize_keep_energy(s, g) ==
    [sim |-> [s EXCEPT !.iteration = 0], graph |-> initialize_positions(g)]

initialize(s, g) ==
    [sim |-> [s EXCEPT !.alpha = s.config.alpha, !.iteration = 0],
     graph |-> initialize_positions(g)]

force_keys_of_sources(g) ==
    {g.nodes[k].id : k \in {i \in 1..Len(g.nodes) : graph_neighbors(g, i) # << >>}}

\* the keys calculate_forces inserts into the force map: the id of every node
force_keys(g) == {g.nodes[k].id : k \in 1..Len(g.nodes)}

\* the keys calculate_forces looks up with get_mut(..).unwrap(): both ids of every
\* pair of the repulsion loop, the id of every node with a neighbor, and the id
\* of every node in the centering loop
force_lookups(g) ==
    {g.nodes[i].id : i \in {k \in 1..Len(g.nodes) : Len(g.nodes) >= 2}}
    \cup {g.nodes[i].id : i \in {k \in 1..Len(g.nodes) :
                                      /\ neighbors(g, g.nodes[k].id).ok
                                      /\ neighbors(g, g.nodes[k].id).val # << >>}}
    \cup {g.nodes[i].id : i \in 1..Len(g.nodes)}

\* what tick returns: Ok(()), unless a lookup in the force map panics
tick_result(s, g) ==
    IF is_finished(s) \/ force_lookups(g) \subseteq force_keys(g) THEN "ok" ELSE "panic"

tick_subtract(s, g) ==
    IF is_finished(s) THEN [sim |-> s, graph |-> g]
    ELSE [sim |-> [s EXCEPT !.alpha = s.alpha - s.config.alpha_decay,
                            !.iteration = s.iteration + 1],
          graph |-> apply_forces(s, g, calculate_forces(s, g))]

tick_always(s, g) ==
    [sim |-> [s EXCEPT !.alpha = MulDiv(s.alpha, AS - s.config.alpha_decay, AS),
                       !.iteration = s.iteration + 1],
     graph |-> apply_forces(s, g, calculate_forces(s, g))]

tick(s, g) ==
    IF is_finished(s) THEN [sim |-> s, graph |-> g]
    ELSE [sim |-> [s EXCEPT !.alpha = MulDiv(s.alpha, AS - s.config.alpha_decay, AS),
                            !.iteration = s.iteration + 1],
          graph |-> apply_forces(s, g, calculate_forces(s, g))]

RECURSIVE run_loop(_, _, _)
run_loop(s, g, n) ==
    IF n = 0 \/ is_finished(s) THEN [sim |-> s, graph |-> g]
    ELSE LET after == tick(s, g)
         IN  run_loop(after.sim, after.graph, n - 1)

run_without_initialize(s, g, iterations) == run_loop(s, g, iterations)

run(s, g, iterations) == run_loop(initialize(s, g).sim, initialize(s, g).graph, iterations)

(***************************************************************************)
(* Inputs of the calls                                                     *)
(***************************************************************************)
Functional == [CharacteristicsDefault EXCEPT !.functional = TRUE]

NodeInputs ==
    { Node("a", "A", Class, VisualDefault, SemanticDefault),
      Node("a", "A again", Datatype, [VisualDefault EXCEPT !.x = 3 * PS, !.y = 4 * PS],
           SemanticDefault),
      Node("b", "B", Class, VisualDefault, SemanticDefault),
      Node("c", "C", Class, VisualDefault, SemanticDefault),
      Node("c", "C again", Special("owl:Thing"), VisualDefault, SemanticDefault) }

EdgeInputs ==
    { <<"a", "b", Edge("p1", "P1", ObjectProperty, CharacteristicsDefault)>>,
      <<"b", "c", Edge("p2", "P2", ObjectProperty, Functional)>>,
      <<"a", "c", Edge("p3", "P3", DatatypeProperty, CharacteristicsDefault)>>,
      <<"a", "a", Edge("p4", "P4", SubClass, CharacteristicsDefault)>> }

\* the nodes and edges of the runs that interleave layout and construction
LayoutNodes ==
    { Node("a", "A", Class, VisualDefault, SemanticDefault),
      Node("b", "B", Datatype, VisualDefault, SemanticDefault),
      Node("b", "B again", Class, VisualDefault, SemanticDefault) }

LayoutEdges ==
    { <<"a", "b", Edge("p1", "P1", ObjectProperty, CharacteristicsDefault)>>,
      <<"b", "a", Edge("p2", "P2", SubClass, Functional)>> }

\* the classes and properties of the ontologies handed to the builder
ClassNode(id, label, class_type, external) ==
    [id |-> id, iri |-> id, label |-> label, class_type |-> class_type,
     external |-> external]

Property(id, property_type, domain, range, characteristics) ==
    [id |-> id, label |-> id, property_type |-> property_type, domain |-> domain,
     range |-> range, characteristics |-> characteristics]

SpecialProperty(name) == [tag |-> "SpecialProperty", name |-> name]

ClassInputs ==
    { ClassNode("a", "A", "owl:Class", FALSE),
      ClassNode("a", "A again", "rdfs:Datatype", FALSE),
      ClassNode("b", "B", "rdfs:Class", TRUE),
      ClassNode("c", "C", "owl:Thing", FALSE) }

PropertyInputs ==
    { Property("p1", ObjectProperty, "a", "b", Functional),
      Property("p2", SpecialProperty(SubclassWord \o <<"O", "f">>), "b", "c",
               [CharacteristicsDefault EXCEPT !.cardinality = Some(<<Some(1), None>>)]),
      Property("p3", DatatypeProperty, "c", "a", CharacteristicsDefault),
      Property("p4", [tag |-> "AnnotationProperty"], "a", "a",
               [CharacteristicsDefault EXCEPT !.symmetric = TRUE]) }

SeqsUpTo(S, n) == UNION {[1..k -> S] : k \in 0..n}

Ontologies ==
    [classes : SeqsUpTo(ClassInputs, MaxClasses),
     properties : SeqsUpTo(PropertyInputs, MaxProperties)]

EmptyOntology == [classes |-> << >>, properties |-> << >>]

Pin(v) == [v EXCEPT !.fixed = TRUE]

\* the configurations of the simulations: the default; one whose energy falls
\* below alpha_min with the first tick; one without decay; one whose start energy
\* is below alpha_min
FastDecay == [LayoutConfigDefault EXCEPT !.alpha_decay = AS - 5 * Limb]
NoDecay == [LayoutConfigDefault EXCEPT !.alpha_decay = 0]
LowEnergy == [LayoutConfigDefault EXCEPT !.alpha = 5 * Limb]

SimConfigs == {LayoutConfigDefault, FastDecay, NoDecay, LowEnergy}

RECURSIVE with_nodes(_, _, _)
with_nodes(g, ns, k) ==
    IF k > Len(ns) THEN g ELSE with_nodes(add_node(g, ns[k]).graph, ns, k + 1)

RECURSIVE with_edges(_, _, _)
with_edges(g, es, k) ==
    IF k > Len(es) THEN g
    ELSE with_edges(add_edge(g, es[k][1], es[k][2], es[k][3]).graph, es, k + 1)

\* the graph the calls add_node(ns[1]), ..., add_edge(es[1]), ... build
GraphOf(ns, es) == with_edges(with_nodes(NewGraph, ns, 1), es, 1)

At(x, y) == [VisualDefault EXCEPT !.x = x, !.y = y]

\* the graphs handed to the simulation: two new nodes; three nodes, the second
\* pinned at (3, 4) and drawn with a weight and a colour, on a path a -> b -> c;
\* a node on the y axis and a new one, with parallel edges; a node with an edge
\* to itself; a single node; no node
SimGraphs ==
    { GraphOf(<<Node("a", "A", Class, VisualDefault, SemanticDefault),
                Node("b", "B", Class, VisualDefault, SemanticDefault)>>, << >>),
      GraphOf(<<Node("a", "A", Class, VisualDefault, SemanticDefault),
                Node("b", "B", Datatype,
                     [At(3 * PS, 4 * PS) EXCEPT !.fixed = TRUE, !.weight = 2 * PS,
                                                !.color = Some("#fff")],
                     [SemanticDefault EXCEPT !.external = TRUE]),
                Node("c", "C", Special("owl:Thing"), VisualDefault, SemanticDefault)>>,
              <<<<"a", "b", Edge("p1", "P1", ObjectProperty, CharacteristicsDefault)>>,
                <<"b", "c", Edge("p2", "P2", SubClass, Functional)>>>>),
      GraphOf(<<Node("a", "A", Class, At(0, -5 * PS), SemanticDefault),
                Node("b", "B", Class, VisualDefault, SemanticDefault)>>,
              <<<<"b", "a", Edge("p1", "P1", ObjectProperty, CharacteristicsDefault)>>,
                <<"b", "a", Edge("p2", "P2", DatatypeProperty, CharacteristicsDefault)>>>>),
      GraphOf(<<Node("a", "A", Class, VisualDefault, SemanticDefault),
                Node("b", "B", Class, VisualDefault, SemanticDefault)>>,
              <<<<"a", "a", Edge("p4", "P4", ObjectProperty, CharacteristicsDefault)>>>>),
      GraphOf(<<Node("a", "A", Class, VisualDefault, SemanticDefault)>>, << >>),
      NewGraph }

(***************************************************************************)
(* Initial state and the calls                                             *)
(***************************************************************************)
Init ==
    /\ graph = NewGraph
    /\ sim = with_config(LayoutConfigDefault)
    /\ result = "ok"
    /\ ticks = 0
    /\ onto = EmptyOntology
    /\ built = None
    /\ left = 0

ResOf(r) == IF r.ok THEN "ok" ELSE r.err

AddNode(node) ==
    /\ graph' = add_node(graph, node).graph
    /\ result' = ResOf(add_node(graph, node).res)
    /\ UNCHANGED <<sim, ticks, onto, built, left>>

AddEdge(from, to, edge) ==
    /\ graph' = add_edge(graph, from, to, edge).graph
    /\ result' = ResOf(add_edge(graph, from, to, edge).res)
    /\ UNCHANGED <<sim, ticks, onto, built, left>>

UpdateMetadata ==
    /\ graph' = update_metadata(graph)
    /\ result' = "ok"
    /\ UNCHANGED <<sim, ticks, onto, built, left>>

\* a caller pins the node get_node_mut(id) returns, if it returns one
PinNode(id) ==
    /\ graph' = IF get_node_mut(graph, id).some
                THEN [graph EXCEPT !.nodes[get_node_mut(graph, id).val].visual = Pin(@)]
                ELSE graph
    /\ result' = IF get_node_mut(graph, id).some THEN "ok" ELSE "none"
    /\ UNCHANGED <<sim, ticks, onto, built, left>>

Initialize ==
    /\ graph' = initialize(sim, graph).graph
    /\ sim' = initialize(sim, graph).sim
    /\ result' = "ok"
    /\ UNCHANGED <<ticks, onto, built, left>>

\* the number of ticks, at most n, that change a simulation in state s
RECURSIVE Effective(_, _)
Effective(s, n) ==
    IF n = 0 \/ is_finished(s) THEN 0
    ELSE 1 + Effective([s EXCEPT !.alpha = MulDiv(s.alpha, AS - s.config.alpha_decay, AS)],
                       n - 1)

Tick ==
    /\ LET after == tick(sim, graph)
       IN  graph' = after.graph /\ sim' = after.sim
    /\ result' = tick_result(sim, graph)
    /\ ticks' = ticks + Effective(sim, 1)
    /\ UNCHANGED <<onto, built, left>>

Run(iterations) ==
    /\ LET after == run(sim, graph, iterations)
       IN  graph' = after.graph /\ sim' = after.sim
    /\ result' = IF iterations = 0 THEN "ok"
                 ELSE tick_result(initialize(sim, graph).sim, graph)
    /\ ticks' = ticks + Effective(initialize(sim, graph).sim, iterations)
    /\ UNCHANGED <<onto, built, left>>

\* run, one iteration of its loop per step: RunBegin is the call up to the loop,
\* RunStep one pass of the loop, left the iterations the loop has left.  No other
\* call is made while left > 0.
RunBegin(iterations) ==
    /\ left = 0
    /\ graph' = initialize(sim, graph).graph
    /\ sim' = initialize(sim, graph).sim
    /\ left' = iterations
    /\ result' = "ok"
    /\ UNCHANGED <<ticks, onto, built>>

RunStep ==
    /\ left > 0
    /\ LET after == IF is_finished(sim) THEN [sim |-> sim, graph |-> graph]
                    ELSE tick(sim, graph)
       IN  graph' = after.graph /\ sim' = after.sim
    /\ left' = IF is_finished(sim) THEN 0 ELSE left - 1
    /\ ticks' = IF is_finished(sim) THEN ticks ELSE ticks + 1
    /\ result' = tick_result(sim, graph)
    /\ UNCHANGED <<onto, built>>

SetCenter(x, y) ==
    /\ sim' = set_center(sim, x, y)
    /\ result' = "ok"
    /\ UNCHANGED <<graph, ticks, onto, built, left>>

SetLinkDistance(distance) ==
    /\ sim' = set_link_distance(sim, distance)
    /\ result' = "ok"
    /\ UNCHANGED <<graph, ticks, onto, built, left>>

SetChargeStrength(strength) ==
    /\ sim' = set_charge_strength(sim, strength)
    /\ result' = "ok"
    /\ UNCHANGED <<graph, ticks, onto, built, left>>

\* One call of GraphBuilder::from_ontology; every call starts from a new builder.
FromOntology(data) ==
    /\ ~built.some
    /\ onto' = data
    /\ built' = Some(from_ontology(data))
    /\ result' = ResOf(from_ontology(data))
    /\ UNCHANGED <<graph, sim, ticks, left>>

BuilderNext == \E data \in Ontologies : FromOntology(data)

BuilderSpec == Init /\ [][BuilderNext]_vars

\* One call of from_ontology on two classes and a property between them, for
\* every class type, property type and set of characteristics below.
MapClassTypes == {"owl:Class", "rdfs:Class", "rdfs:Datatype", "xsd:*", "owl:Thing", ""}

MapPropertyTypes ==
    { ObjectProperty, DatatypeProperty, [tag |-> "AnnotationProperty"],
      SpecialProperty(SubclassWord),
      SpecialProperty(<<"r", "d", "f", "s", ":">> \o SubclassWord \o <<"O", "f">>),
      SpecialProperty(<<"S", "u", "b", "C", "l", "a", "s", "s", "O", "f">>),
      SpecialProperty(<<"s", "u", "b", "c", "l", "a", "s">>),
      SpecialProperty(<< >>) }

MapCharacteristics ==
    [functional : BOOLEAN, inverse_functional : BOOLEAN, transitive : BOOLEAN,
     symmetric : BOOLEAN,
     cardinality : {None, Some(<<None, None>>), Some(<<Some(1), None>>),
                    Some(<<Some(0), Some(2)>>)}]

MapOntologies ==
    { [classes |-> <<ClassNode("a", "A", class_type, external),
                     ClassNode("b", "B", "owl:Class", FALSE)>>,
       properties |-> <<Property("p1", property_type, "a", "b", characteristics)>>] :
        class_type \in MapClassTypes, external \in BOOLEAN,
        property_type \in MapPropertyTypes, characteristics \in MapCharacteristics }

MapNext == \E data \in MapOntologies : FromOntology(data)

MapSpec == Init /\ [][MapNext]_vars

(***************************************************************************)
(* WebVowl (bindings/mod.rs) and StandardParser (ontology/parser.rs).  In  *)
(* the specification of the binding the variable graph is the field        *)
(* WebVowl::graph, an Option, and sim is the field WebVowl::simulation.    *)
(* A JSON text is a syntax error or an object with the keys the parser     *)
(* reads, each of them present (Some) or absent (None).                    *)
(***************************************************************************)
NoGraphLoaded == "No graph loaded"
ParseError == "Failed to parse ontology"
InvalidData == "Invalid ontology data"

JsonObject(class, property) == [syntax |-> TRUE, class |-> class, property |-> property]
JsonClass(id, label, type, external) ==
    [id |-> id, label |-> label, type |-> type, external |-> external]
JsonProperty(id, type, domain, range, functional) ==
    [id |-> id, type |-> type, domain |-> domain, range |-> range,
     functional |-> functional]

\* Iterator::collect into a Result: the values, or the first error
collect(results) ==
    IF \E k \in 1..Len(results) : ~results[k].ok
    THEN results[CHOOSE k \in 1..Len(results) :
                    ~results[k].ok /\ \A j \in 1..(k - 1) : results[j].ok]
    ELSE Ok([k \in 1..Len(results) |-> results[k].val])

parse_class_node(json) ==
    IF ~json.id.some THEN Err(ParseError)
    ELSE LET id == json.id.val
             label == IF json.label.some THEN json.label.val ELSE id
         IN  IF label = "" THEN Err(ParseError)
             ELSE Ok([id |-> id, iri |-> id, label |-> label,
                      class_type |-> IF json.type.some THEN json.type.val ELSE "owl:Class",
                      external |-> json.external.some /\ json.external.val])

parse_classes(json) ==
    IF ~json.class.some THEN Err(ParseError)
    ELSE collect([k \in 1..Len(json.class.val) |-> parse_class_node(json.class.val[k])])

\* the type of a property is a sequence of characters, as the name of a special
\* property is
parse_property_type(json) ==
    LET owl == <<"o", "w", "l", ":">>
        property == <<"P", "r", "o", "p", "e", "r", "t", "y">>
        object == owl \o <<"O", "b", "j", "e", "c", "t">> \o property
        datatype == owl \o <<"D", "a", "t", "a", "t", "y", "p", "e">> \o property
        annotation ==
            owl \o <<"A", "n", "n", "o", "t", "a", "t", "i", "o", "n">> \o property
        type_str == IF json.type.some THEN json.type.val ELSE object
    IN  IF type_str = object THEN ObjectProperty
        ELSE IF type_str = datatype THEN DatatypeProperty
        ELSE IF type_str = annotation THEN [tag |-> "AnnotationProperty"]
        ELSE SpecialProperty(type_str)

parse_property_characteristics(json) ==
    [CharacteristicsDefault EXCEPT
        !.functional = json.functional.some /\ json.functional.val]

parse_property(json) ==
    IF ~json.id.some \/ ~json.domain.some \/ ~json.range.some THEN Err(ParseError)
    ELSE Ok(Property(json.id.val, parse_property_type(json), json.domain.val,
                     json.range.val, parse_property_characteristics(json)))

parse_properties(json) ==
    IF ~json.property.some THEN Err(ParseError)
    ELSE collect([k \in 1..Len(json.property.val) |->
                     parse_property(json.property.val[k])])

parse(json) ==
    IF ~json.syntax THEN Err(ParseError)
    ELSE LET classes == parse_classes(json)
         IN  IF ~classes.ok THEN classes
             ELSE LET properties == parse_properties(json)
                  IN  IF ~properties.ok THEN properties
                      ELSE Ok([classes |-> classes.val, properties |-> properties.val])

\* an unknown range is a warning, an unknown domain an error
validate(data) ==
    LET class_ids == {data.classes[k].id : k \in 1..Len(data.classes)}
    IN  IF \E k \in 1..Len(data.properties) : data.properties[k].domain \notin class_ids
        THEN Err(InvalidData)
        ELSE Ok(TRUE)

\* the graph is dropped when the text is rejected
load_ontology_or_unload(w, json) ==
    LET ontology_data == parse(json)
    IN  IF ~ontology_data.ok THEN [web |-> [w EXCEPT !.graph = None], res |-> ontology_data]
        ELSE LET valid == validate(ontology_data.val)
                 g == from_ontology(ontology_data.val)
             IN  IF ~valid.ok THEN [web |-> [w EXCEPT !.graph = None], res |-> valid]
                 ELSE IF ~g.ok THEN [web |-> [w EXCEPT !.graph = None], res |-> g]
                 ELSE [web |-> [w EXCEPT !.graph = Some(g.val)], res |-> Ok(TRUE)]

load_ontology(w, json) ==
    LET ontology_data == parse(json)
    IN  IF ~ontology_data.ok THEN [web |-> w, res |-> ontology_data]
        ELSE LET valid == validate(ontology_data.val)
                 g == from_ontology(ontology_data.val)
             IN  IF ~valid.ok THEN [web |-> w, res |-> valid]
                 ELSE IF ~g.ok THEN [web |-> w, res |-> g]
                 ELSE [web |-> [w EXCEPT !.graph = Some(g.val)], res |-> Ok(TRUE)]

init_simulation(w) ==
    IF ~w.graph.some THEN [web |-> w, res |-> Err(NoGraphLoaded)]
    ELSE LET after == initialize(w.simulation, w.graph.val)
         IN  [web |-> [graph |-> Some(after.graph), simulation |-> after.sim],
              res |-> Ok(TRUE)]

run_simulation(w, iterations) ==
    IF ~w.graph.some THEN [web |-> w, res |-> Err(NoGraphLoaded)]
    ELSE LET after == run(w.simulation, w.graph.val, iterations)
         IN  [web |-> [graph |-> Some(after.graph), simulation |-> after.sim],
              res |-> Ok(TRUE)]

web_tick(w) ==
    IF ~w.graph.some THEN [web |-> w, res |-> Err(NoGraphLoaded)]
    ELSE LET after == tick(w.simulation, w.graph.val)
         IN  [web |-> [graph |-> Some(after.graph), simulation |-> after.sim],
              res |-> Ok(TRUE)]

\* GraphData::from_graph: the endpoints of an edge are empty strings
from_graph(g) ==
    [nodes |-> [k \in 1..Len(g.nodes) |->
                   [id |-> g.nodes[k].id, label |-> g.nodes[k].label,
                    x |-> g.nodes[k].visual.x, y |-> g.nodes[k].visual.y,
                    node_type |-> g.nodes[k].node_type]],
     edges |-> [k \in 1..Len(edges(g)) |->
                   [id |-> edges(g)[k].id, label |-> edges(g)[k].label,
                    source |-> "", target |-> "",
                    edge_type |-> edges(g)[k].edge_type]]]

get_graph_data(w) ==
    IF ~w.graph.some THEN Err(NoGraphLoaded) ELSE Ok(from_graph(w.graph.val))

get_node_count(w) == IF w.graph.some THEN node_count(w.graph.val) ELSE 0

get_edge_count(w) == IF w.graph.some THEN edge_count(w.graph.val) ELSE 0

get_statistics(w) ==
    IF ~w.graph.some THEN Err(NoGraphLoaded)
    ELSE Ok([node_count |-> node_count(w.graph.val),
             edge_count |-> edge_count(w.graph.val),
             class_count |-> metadata(w.graph.val).class_count,
             property_count |-> metadata(w.graph.val).property_count,
             max_degree |-> metadata(w.graph.val).max_degree,
             density |-> metadata(w.graph.val).density])

\* the JSON texts handed to loadOntology
WebDocuments ==
    LET a == JsonClass(Some("a"), Some("A"), Some("owl:Class"), None)
        b == JsonClass(Some("b"), None, None, Some(TRUE))
        c == JsonClass(Some("c"), Some("C"), Some("owl:Thing"), None)
        p1 == JsonProperty(Some("p1"), None, Some("a"), Some("b"), Some(TRUE))
        p2 == JsonProperty(Some("p2"),
                           Some(<<"r", "d", "f", "s", ":">> \o SubclassWord \o <<"O", "f">>),
                           Some("b"), Some("c"), None)
        p3 == JsonProperty(Some("p3"),
                           Some(<<"o", "w", "l", ":", "D", "a", "t", "a", "t", "y", "p", "e",
                                  "P", "r", "o", "p", "e", "r", "t", "y">>),
                           Some("a"), Some("xsd:string"), None)
    IN  { [syntax |-> FALSE],
          JsonObject(None, Some(<< >>)),
          JsonObject(Some(<<a>>), None),
          JsonObject(Some(<<a, JsonClass(None, Some("B"), None, None)>>), Some(<< >>)),
          JsonObject(Some(<<JsonClass(Some("a"), Some(""), None, None)>>), Some(<< >>)),
          JsonObject(Some(<<a, b>>),
                     Some(<<JsonProperty(Some("p1"), None, None, Some("b"), None)>>)),
          JsonObject(Some(<<a, b>>),
                     Some(<<JsonProperty(Some("p1"), None, Some("z"), Some("b"), None)>>)),
          JsonObject(Some(<<a, b>>), Some(<<p1, p3>>)),
          JsonObject(Some(<<a, b, a>>), Some(<<p1>>)),
          JsonObject(Some(<<a>>), Some(<< >>)),
          JsonObject(Some(<<a, b>>), Some(<<p1>>)),
          JsonObject(Some(<<a, b, c>>), Some(<<p1, p2>>)) }

WebVowl == [graph |-> graph, simulation |-> sim]

WebInit ==
    /\ graph = None
    /\ sim = with_config(LayoutConfigDefault)
    /\ result = "ok"
    /\ ticks = 0
    /\ onto = EmptyOntology
    /\ built = None
    /\ left = 0

LoadOntology(json) ==
    /\ LET after == load_ontology(WebVowl, json)
       IN  /\ graph' = after.web.graph
           /\ sim' = after.web.simulation
           /\ result' = ResOf(after.res)
    /\ UNCHANGED <<ticks, onto, built, left>>

InitSimulation ==
    /\ LET after == init_simulation(WebVowl)
       IN  /\ graph' = after.web.graph
           /\ sim' = after.web.simulation
           /\ result' = ResOf(after.res)
    /\ UNCHANGED <<ticks, onto, built, left>>

RunSimulation(iterations) ==
    /\ LET after == run_simulation(WebVowl, iterations)
       IN  /\ graph' = after.web.graph
           /\ sim' = after.web.simulation
           /\ result' = ResOf(after.res)
    /\ ticks' = IF graph.some
                THEN ticks + Effective(initialize(sim, graph.val).sim, iterations)
                ELSE ticks
    /\ UNCHANGED <<onto, built, left>>

WebTick ==
    /\ LET after == web_tick(WebVowl)
       IN  /\ graph' = after.web.graph
           /\ sim' = after.web.simulation
           /\ result' = ResOf(after.res)
    /\ ticks' = IF graph.some THEN ticks + Effective(sim, 1) ELSE ticks
    /\ UNCHANGED <<onto, built, left>>

GetGraphData ==
    /\ result' = ResOf(get_graph_data(WebVowl))
    /\ UNCHANGED <<graph, sim, ticks, onto, built, left>>

GetStatistics ==
    /\ result' = ResOf(get_statistics(WebVowl))
    /\ UNCHANGED <<graph, sim, ticks, onto, built, left>>

GetNodeCount ==
    /\ result' = ToString(get_node_count(WebVowl))
    /\ UNCHANGED <<graph, sim, ticks, onto, built, left>>

GetEdgeCount ==
    /\ result' = ToString(get_edge_count(WebVowl))
    /\ UNCHANGED <<graph, sim, ticks, onto, built, left>>

WebNext ==
    \/ \E json \in WebDocuments : LoadOntology(json)
    \/ InitSimulation
    \/ \E n \in 0..MaxWebTicks :
          (graph.some => ticks + Effective(initialize(sim, graph.val).sim, n) <= MaxWebTicks)
             /\ RunSimulation(n)
    \/ (graph.some => ticks + Effective(sim, 1) <= MaxWebTicks) /\ WebTick
    \/ GetGraphData
    \/ GetStatistics
    \/ GetNodeCount
    \/ GetEdgeCount
    \/ SetCenter(100 * PS, 200 * PS)

WebSpec == WebInit /\ [][WebNext]_vars

\* Construction of a graph through the VowlGraph API alone.
GraphNext ==
    \/ \E node \in NodeInputs : AddNode(node)
    \/ \E e \in EdgeInputs : edge_count(graph) < MaxEdges /\ AddEdge(e[1], e[2], e[3])
    \/ UpdateMetadata

GraphSpec == Init /\ [][GraphNext]_vars

\* Construction interleaved with the calls of the layout.
Next ==
    \/ \E node \in LayoutNodes : AddNode(node)
    \/ \E e \in LayoutEdges : edge_count(graph) < MaxLayoutEdges /\ AddEdge(e[1], e[2], e[3])
    \/ UpdateMetadata
    \/ PinNode("b")
    \/ Initialize
    \/ ticks + Effective(sim, 1) <= MaxTicks /\ Tick
    \/ \E n \in 0..MaxTicks :
          ticks + Effective(initialize(sim, graph).sim, n) <= MaxTicks /\ Run(n)

Spec == Init /\ [][Next]_vars

\* The simulation on a constructed graph, from any of the configurations.
SimInit ==
    /\ graph \in SimGraphs
    /\ sim \in {with_config(config) : config \in SimConfigs}
    /\ result = "ok"
    /\ ticks = 0
    /\ onto = EmptyOntology
    /\ built = None
    /\ left = 0

SimNext ==
    \/ Initialize
    \/ ticks + Effective(sim, 1) <= MaxSimTicks /\ Tick
    \/ \E n \in 0..MaxSimTicks :
          ticks + Effective(initialize(sim, graph).sim, n) <= MaxSimTicks /\ Run(n)
    \/ SetCenter(100 * PS, 200 * PS)
    \/ SetLinkDistance(50 * PS)
    \/ SetChargeStrength(-100 * PS)

SimSpec == SimInit /\ [][SimNext]_vars

\* run and tick alone, from every graph and configuration of SimInit
RunNext ==
    \/ ticks + Effective(sim, 1) <= MaxSimTicks /\ Tick
    \/ \E n \in 0..MaxSimTicks :
          ticks + Effective(initialize(sim, graph).sim, n) <= MaxSimTicks /\ Run(n)

RunSpec == SimInit /\ [][RunNext]_vars

\* run(graph, 1000) as the tests call it
RunIterations == 1000

\* Long runs: ticks up to convergence and beyond, and run(graph, 1000).
DecayInit ==
    /\ graph \in {g \in SimGraphs : node_count(g) >= 2 /\ edge_count(g) # 1}
    /\ sim \in {with_config(config) : config \in SimConfigs}
    /\ result = "ok"
    /\ ticks = 0
    /\ onto = EmptyOntology
    /\ built = None
    /\ left = 0

DecayNext ==
    \/ left = 0 /\ ticks < MaxDecayTicks /\ Tick
    \/ ticks <= MaxRunStart /\ RunBegin(RunIterations)
    \/ RunStep

DecaySpec == DecayInit /\ [][DecayNext]_vars

\* Forces on two nodes: the positions, the edges between them and the repulsion
\* coefficient are drawn, then ticks are made.
ForcePoints == {<<0, 0>>, <<5 * PS, 12 * PS>>, <<5 * PS, 12 * PS + 1>>, <<-40 * PS, 0>>}

ForceStrengths == {-30 * PS, 0, 30 * PS, -100 * PS}

ForceEdges ==
    { << >>,
      <<<<"a", "b", Edge("p1", "P1", ObjectProperty, CharacteristicsDefault)>>>>,
      <<<<"a", "b", Edge("p1", "P1", ObjectProperty, CharacteristicsDefault)>>,
        <<"a", "b", Edge("p2", "P2", DatatypeProperty, CharacteristicsDefault)>>>>,
      <<<<"b", "b", Edge("p3", "P3", ObjectProperty, CharacteristicsDefault)>>>> }

ForceInit ==
    /\ graph \in {GraphOf(<<Node("a", "A", Class, At(p1[1], p1[2]), SemanticDefault),
                            Node("b", "B", Class, At(p2[1], p2[2]), SemanticDefault)>>, es) :
                      p1 \in ForcePoints, p2 \in ForcePoints, es \in ForceEdges}
    /\ sim \in {with_config([LayoutConfigDefault EXCEPT !.charge_strength = k]) :
                    k \in ForceStrengths}
    /\ result = "ok"
    /\ ticks = 0
    /\ onto = EmptyOntology
    /\ built = None
    /\ left = 0

ForceNext == ticks < MaxForceTicks /\ Tick

ForceSpec == ForceInit /\ [][ForceNext]_vars

(***************************************************************************)
(* Properties                                                              *)
(***************************************************************************)
AllNodeInputs == NodeInputs \cup LayoutNodes

\* C1: in every reachable graph, add_node of a node whose id is present returns
\* the "already exists" error and returns the graph as it was: node_count,
\* edge_count, the id-to-index map, every get_node answer and the stored nodes
\* (label, type, position) are those from before the call.
C1_DuplicateNodeRejected ==
    \A node \in AllNodeInputs :
        contains_key(graph, node.id) =>
            LET r == add_node(graph, node)
            IN  /\ r.res = Err(AlreadyExists)
                /\ node_count(r.graph) = node_count(graph)
                /\ edge_count(r.graph) = edge_count(graph)
                /\ r.graph.node_map = graph.node_map
                /\ \A id \in Ids : get_node(r.graph, id) = get_node(graph, id)
                /\ nodes(r.graph) = nodes(graph)
                /\ r.graph = graph

\* a duplicate was just rejected in a graph of two nodes that a tick has moved
C1_Witness ==
    /\ result = AlreadyExists
    /\ node_count(graph) = 2
    /\ ticks = 1
    /\ \E k \in 1..2 : graph.nodes[k].visual.x # 0

\* C2: add_edge returns the "not found" error whenever from or to is not the id
\* of a node, and then edge_count, node_count and neighbors and degree of every
\* id are as before; when both ids are present it succeeds and edge_count grows
\* by exactly 1.
C2_AddEdgeChecksEndpoints ==
    \A from \in Ids, to \in Ids, e \in EdgeInputs :
        LET r == add_edge(graph, from, to, e[3])
        IN  IF contains_key(graph, from) /\ contains_key(graph, to)
            THEN /\ r.res.ok
                 /\ edge_count(r.graph) = edge_count(graph) + 1
                 /\ node_count(r.graph) = node_count(graph)
            ELSE /\ r.res = Err(NotFound)
                 /\ edge_count(r.graph) = edge_count(graph)
                 /\ node_count(r.graph) = node_count(graph)
                 /\ \A id \in Ids : /\ neighbors(r.graph, id) = neighbors(graph, id)
                                    /\ degree(r.graph, id) = degree(graph, id)

\* an edge a -> b was just refused for its missing target b, in a graph that has
\* the node a and an edge
C2_Witness ==
    /\ result = NotFound
    /\ contains_key(graph, "a")
    /\ ~contains_key(graph, "b")
    /\ edge_count(graph) = 1

\* C3: node ids are pairwise distinct, the id-to-index map has exactly one entry
\* per stored node, and get_node(id) is the stored node whose id field is id when
\* there is one and None otherwise, after any sequence of add_node, add_edge,
\* update_metadata, writes through get_node_mut and layout calls.
C3_IdsUniqueAndResolvable ==
    /\ \A i, j \in 1..node_count(graph) :
          i # j => graph.nodes[i].id # graph.nodes[j].id
    /\ Cardinality(DOMAIN graph.node_map) = node_count(graph)
    /\ \A id \in Ids :
          IF \E k \in 1..node_count(graph) : graph.nodes[k].id = id
          THEN /\ get_node(graph, id).some
               /\ get_node(graph, id).val.id = id
               /\ \E k \in 1..node_count(graph) : get_node(graph, id).val = graph.nodes[k]
          ELSE get_node(graph, id) = None

\* two nodes, one pinned through get_node_mut, after a tick, a duplicate add_node
\* being the last call
C3_Witness ==
    /\ node_count(graph) = 2
    /\ ticks = 1
    /\ get_node(graph, "b").some /\ get_node(graph, "b").val.visual.fixed
    /\ result = AlreadyExists

\* ids of the stored nodes, in storage order
NodeIds(g) == [k \in 1..node_count(g) |-> g.nodes[k].id]

\* C4: no call removes a node or an edge: node_count and edge_count never
\* decrease, a stored node keeps its index and id, a stored edge keeps its
\* endpoints, and the endpoints of every edge are indices of stored nodes.
C4_NeverRemoved ==
    [][ /\ node_count(graph') >= node_count(graph)
        /\ edge_count(graph') >= edge_count(graph)
        /\ SubSeq(NodeIds(graph'), 1, node_count(graph)) = NodeIds(graph)
        /\ SubSeq(graph'.edges, 1, edge_count(graph)) = graph.edges
        /\ \A k \in 1..edge_count(graph') :
              /\ graph'.edges[k].source \in 1..node_count(graph')
              /\ graph'.edges[k].target \in 1..node_count(graph') ]_vars

\* two edges in a graph a tick has moved, a duplicate add_node being the last call
C4_Witness ==
    /\ edge_count(graph) = 2
    /\ ticks = 1
    /\ result = AlreadyExists

ClassIds(data) == {data.classes[k].id : k \in 1..Len(data.classes)}

DuplicateClass(data) ==
    \E i, j \in 1..Len(data.classes) : i # j /\ data.classes[i].id = data.classes[j].id

UnknownEndpoint(data) ==
    \E k \in 1..Len(data.properties) :
        \/ data.properties[k].domain \notin ClassIds(data)
        \/ data.properties[k].range \notin ClassIds(data)

\* C5: from_ontology is atomic: when two classes share an id or a property's
\* domain or range is not the id of a class, the call returns an error and
\* nothing else, no graph, whatever was inserted before the failing step.
C5_BuildIsAtomic ==
    built.some =>
        /\ DuplicateClass(onto) => built.val = Err(AlreadyExists)
        /\ (~DuplicateClass(onto) /\ UnknownEndpoint(onto)) => built.val = Err(NotFound)
        /\ ~built.val.ok => result = built.val.err

\* the build failed at its second property, after two nodes and an edge
C5_Witness ==
    /\ built.some /\ ~built.val.ok
    /\ Len(onto.classes) = 2 /\ ~DuplicateClass(onto)
    /\ Len(onto.properties) = 2
    /\ onto.properties[1].domain \in ClassIds(onto)
    /\ onto.properties[1].range \in ClassIds(onto)
    /\ onto.properties[2].range \notin ClassIds(onto)

\* C6: when the class ids are pairwise distinct and every domain and range is a
\* class id, from_ontology succeeds, wherever the classes a property refers to
\* stand in the class list; the graph has one node per class, in class-list
\* order, one edge per property, in property-list order, and its metadata is
\* what update_metadata computes on it.
C6_BuildSucceeds ==
    (built.some /\ ~DuplicateClass(onto) /\ ~UnknownEndpoint(onto)) =>
        /\ built.val.ok
        /\ node_count(built.val.val) = Len(onto.classes)
        /\ edge_count(built.val.val) = Len(onto.properties)
        /\ NodeIds(built.val.val) = [k \in 1..Len(onto.classes) |-> onto.classes[k].id]
        /\ \A k \in 1..Len(onto.properties) :
              /\ edges(built.val.val)[k].id = onto.properties[k].id
              /\ built.val.val.nodes[built.val.val.edges[k].source].id
                    = onto.properties[k].domain
              /\ built.val.val.nodes[built.val.val.edges[k].target].id
                    = onto.properties[k].range
        /\ metadata(built.val.val) = metadata(update_metadata(built.val.val))
        /\ metadata(built.val.val).property_count = Len(onto.properties)

\* a graph of three classes and two properties was built, the first property
\* referring to the class listed last
C6_Witness ==
    /\ built.some /\ built.val.ok
    /\ Len(onto.classes) = 3 /\ Len(onto.properties) = 2
    /\ onto.properties[1].domain = onto.classes[3].id
    /\ metadata(built.val.val).property_count = 2

OutEdges(g, i) == {k \in 1..edge_count(g) : g.edges[k].source = i}

NotClass(g) == {k \in 1..node_count(g) : g.nodes[k].node_type.tag \in {"Datatype", "Special"}}

\* three Class nodes a, b, c with exactly the edges a -> b, b -> c, a -> c
Triangle(g) ==
    /\ node_count(g) = 3 /\ NotClass(g) = {}
    /\ edge_count(g) = 3
    /\ {<<g.nodes[g.edges[k].source].id, g.nodes[g.edges[k].target].id>> : k \in 1..3}
          = {<<"a", "b">>, <<"b", "c">>, <<"a", "c">>}

\* C7: update_metadata leaves class_count = the number of nodes tagged Class,
\* property_count = edge_count, max_degree = the largest number of outgoing
\* edges of a node (0 without nodes) and, for n = node_count > 1, density =
\* edge_count / (n * (n - 1)); on the triangle a -> b, b -> c, a -> c of three
\* Class nodes these are 3, 3, 2 and 1/2.
C7_MetadataValues ==
    [][ UpdateMetadata =>
          LET g == graph'
              n == node_count(g)
          IN  /\ metadata(g).class_count = n - Cardinality(NotClass(g))
              /\ metadata(g).property_count = edge_count(g)
              /\ \A i \in 1..n : metadata(g).max_degree >= Cardinality(OutEdges(g, i))
              /\ IF n = 0 THEN metadata(g).max_degree = 0
                 ELSE \E i \in 1..n : metadata(g).max_degree = Cardinality(OutEdges(g, i))
              /\ n > 1 => /\ metadata(g).density.num * n * (n - 1)
                                = edge_count(g) * metadata(g).density.den
                          /\ metadata(g).density.den > 0
              /\ Triangle(g) =>
                    metadata(g) = [class_count |-> 3, property_count |-> 3,
                                   max_degree |-> 2, density |-> [num |-> 1, den |-> 2]] ]_vars

\* the metadata of the triangle has been computed
C7_Witness ==
    /\ Triangle(graph)
    /\ metadata(graph).class_count = 3
    /\ metadata(graph).max_degree = 2
    /\ metadata(graph).density = [num |-> 1, den |-> 2]

\* the graph of the first i nodes and the first j edges of g, never measured
Earlier(g, i, j) ==
    [nodes |-> SubSeq(g.nodes, 1, i), edges |-> SubSeq(g.edges, 1, j),
     node_map |-> [id \in {g.nodes[k].id : k \in 1..i} |-> g.node_map[id]],
     metadata |-> MetadataDefault]

\* the metadata of g is that of an earlier extent of g, or was never computed
Snapshot(g) ==
    \/ metadata(g) = MetadataDefault
    \/ \E i \in 0..node_count(g), j \in 0..edge_count(g) :
          /\ \A k \in 1..j : g.edges[k].source <= i /\ g.edges[k].target <= i
          /\ metadata(g) = metadata(update_metadata(Earlier(g, i, j)))

\* C8: metadata is never maintained automatically: a step that changes
\* metadata() is an update_metadata call; add_node and add_edge, and every step
\* that moves or pins a node or changes the simulation (a write through
\* get_node_mut, initialize, tick, run), leave it as it was; so it is always the
\* snapshot of an earlier extent of the graph (all zeros before the first
\* update_metadata).
C8_MetadataOnlyOnDemand ==
    /\ []Snapshot(graph)
    /\ [][ /\ metadata(graph') # metadata(graph) => UpdateMetadata
           /\ \A node \in AllNodeInputs :
                 AddNode(node) => metadata(graph') = metadata(graph)
           /\ \A e \in LayoutEdges :
                 AddEdge(e[1], e[2], e[3]) => metadata(graph') = metadata(graph)
           /\ (nodes(graph') # nodes(graph) \/ sim' # sim \/ ticks' # ticks)
                 => metadata(graph') = metadata(graph) ]_vars

\* the metadata was computed for one node and no edge; the graph has since grown
\* to two nodes and two edges and was moved by a tick
C8_Witness ==
    /\ metadata(graph).class_count = 1
    /\ metadata(graph).property_count = 0
    /\ node_count(graph) = 2 /\ edge_count(graph) = 2
    /\ ticks = 1

\* C9: degree(id) is the number of edges whose source is id, parallel edges
\* counted each and incoming edges not; neighbors(id) has one entry per such
\* edge, its target; both are the "not found" error for an id that is absent.
C9_OutgoingOnly ==
    \A id \in Ids :
        IF \E k \in 1..node_count(graph) : graph.nodes[k].id = id
        THEN LET i == CHOOSE k \in 1..node_count(graph) : graph.nodes[k].id = id
                 nb == neighbors(graph, id)
             IN  /\ degree(graph, id) = Ok(Cardinality(OutEdges(graph, i)))
                 /\ nb.ok
                 /\ Len(nb.val) = degree(graph, id).val
                 /\ \A t \in 1..node_count(graph) :
                       Cardinality({k \in 1..Len(nb.val) : nb.val[k] = graph.nodes[t]})
                          = Cardinality({k \in OutEdges(graph, i) : graph.edges[k].target = t})
        ELSE /\ degree(graph, id) = Err(NotFound)
             /\ neighbors(graph, id) = Err(NotFound)

\* b has two parallel incoming edges from a and one outgoing edge to c
C9_Witness ==
    /\ edge_count(graph) = 3
    /\ degree(graph, "a") = Ok(2)
    /\ degree(graph, "b") = Ok(1)
    /\ neighbors(graph, "a").ok
    /\ neighbors(graph, "a").val[1].id = "b" /\ neighbors(graph, "a").val[2].id = "b"

\* a node without its visual state
Stable(node) == [node EXCEPT !.visual = VisualDefault]

StableNodes(g) == [k \in 1..node_count(g) |-> Stable(g.nodes[k])]

\* C10: nodes() is the sequence of the nodes of the successful add_node calls
\* and edges() that of the edges of the successful add_edge calls, in call
\* order: a successful insertion appends its node or edge, and every other step
\* (a failed insertion, update_metadata, a write through get_node_mut,
\* initialize, tick, run) leaves the nodes, their visual state apart, and the
\* edges in the order they had.
C10_InsertionOrder ==
    [][ /\ \/ StableNodes(graph') = StableNodes(graph)
           \/ \E node \in LayoutNodes :
                 /\ AddNode(node) /\ result' = "ok"
                 /\ nodes(graph') = Append(nodes(graph), node)
        /\ \/ edges(graph') = edges(graph)
           \/ \E e \in LayoutEdges :
                 /\ AddEdge(e[1], e[2], e[3]) /\ result' = "ok"
                 /\ edges(graph') = Append(edges(graph), e[3])
        /\ \A node \in LayoutNodes :
              (AddNode(node) /\ result' # "ok") => nodes(graph') = nodes(graph)
        /\ \A e \in LayoutEdges :
              (AddEdge(e[1], e[2], e[3]) /\ result' # "ok")
                 => edges(graph') = edges(graph)
        /\ (sim' # sim \/ ticks' # ticks) =>
              /\ StableNodes(graph') = StableNodes(graph)
              /\ edges(graph') = edges(graph) ]_vars

\* p2 was added before p1 and b before a; a tick has moved the nodes and the
\* last call was a failed insertion
C10_Witness ==
    /\ NodeIds(graph) = <<"b", "a">>
    /\ edge_count(graph) = 2
    /\ edges(graph)[1].id = "p2" /\ edges(graph)[2].id = "p1"
    /\ ticks = 1
    /\ result = AlreadyExists

\* C11: whenever is_finished() is true (alpha < alpha_min), tick returns Ok and
\* changes nothing: x, y, vx, vy of every node, alpha and the tick counter are
\* those from before the call.
C11_FinishedTickIsNoOp ==
    is_finished(sim) =>
        /\ sim.alpha < sim.config.alpha_min
        /\ tick(sim, graph).sim.alpha = sim.alpha
        /\ tick(sim, graph).sim.iteration = sim.iteration
        /\ \A k \in 1..node_count(graph) :
              tick(sim, graph).graph.nodes[k].visual = graph.nodes[k].visual
        /\ tick(sim, graph) = [sim |-> sim, graph |-> graph]

\* the energy fell below alpha_min with a tick that moved two nodes joined by edges
C11_Witness ==
    /\ is_finished(sim)
    /\ sim.iteration = 1
    /\ node_count(graph) = 2 /\ edge_count(graph) = 2
    /\ graph.nodes[2].visual.vx # 0

\* C12 as stated: once is_finished() is true it stays true after every call
\* (tick, the setters, initialize, run).
C12_ConvergedIsTerminal ==
    [][is_finished(sim) => is_finished(sim')]_vars

\* C12, amended: once is_finished() is true it stays true after tick,
\* set_center, set_link_distance and set_charge_strength; only initialize, and
\* run, which begins with initialize, leave the converged state: they reset
\* alpha to the configured start value, so that afterwards is_finished() is
\* true exactly when that value is below alpha_min (run: or the ticks it then
\* made brought alpha below alpha_min again).
C12_ConvergedUntilInitialize ==
    [][ /\ (is_finished(sim) /\ ~is_finished(sim')) =>
              /\ Initialize \/ \E n \in 0..MaxSimTicks : Run(n)
              /\ sim.config.alpha >= sim.config.alpha_min
        /\ (is_finished(sim) /\ sim'.config # sim.config) => is_finished(sim')
        /\ (is_finished(sim) /\ Tick) => is_finished(sim')
        /\ Initialize =>
              /\ sim'.alpha = sim.config.alpha
              /\ is_finished(sim') <=> (sim.config.alpha < sim.config.alpha_min) ]_vars

\* a simulation that converged, was started again and converged again, its
\* centre having been set
C12_Witness ==
    /\ is_finished(sim)
    /\ ticks = 2 /\ sim.iteration = 1
    /\ sim.config.center # <<0, 0>>

RECURSIVE Decayed(_, _, _)
\* alpha0 * (1 - decay)^k, one factor after the other
Decayed(alpha0, decay, k) ==
    IF k = 0 THEN alpha0 ELSE MulDiv(Decayed(alpha0, decay, k - 1), AS - decay, AS)

\* alpha = alpha0 * (1 - alpha_decay)^counter, alpha within (0, alpha0]
GeometricAlpha ==
    /\ sim.alpha > 0 /\ sim.alpha <= sim.config.alpha
    /\ sim.iteration = 0 => sim.alpha = sim.config.alpha
    /\ sim.iteration <= MaxPower =>
          sim.alpha = Decayed(sim.config.alpha, sim.config.alpha_decay, sim.iteration)

\* C13 as stated: alpha decays geometrically and, with the defaults, is 0.509
\* (to within 0.005) after 30 ticks.
C13_AlphaAfter30Ticks ==
    /\ GeometricAlpha
    /\ (sim.config = LayoutConfigDefault /\ sim.iteration = 30) =>
          /\ sim.alpha >= 504 * (AS \div 1000)
          /\ sim.alpha <= 514 * (AS \div 1000)

\* C13, amended: for a start value alpha0 > 0 and 0 <= alpha_decay < 1, every
\* tick made while not finished multiplies alpha by (1 - alpha_decay) and adds 1
\* to the tick counter, and no other call changes alpha except initialize and
\* run, which set alpha to alpha0 and the counter to 0; so alpha is
\* alpha0 * (1 - alpha_decay)^counter, never increases between initializations
\* and stays within (0, alpha0]; with the defaults alpha after 30 ticks is
\* 0.5006 (0.9772^30), not 0.509.
C13_GeometricDecay ==
    /\ [](/\ GeometricAlpha
          /\ (sim.config = LayoutConfigDefault /\ sim.iteration = 30) =>
                /\ sim.alpha >= 5005 * Limb
                /\ sim.alpha <= 5007 * Limb)
    /\ [][ /\ sim'.iteration = sim.iteration + 1 =>
                /\ ~is_finished(sim)
                /\ sim'.alpha = MulDiv(sim.alpha, AS - sim.config.alpha_decay, AS)
           /\ sim'.iteration # sim.iteration + 1 =>
                \/ sim'.alpha = sim.alpha /\ sim'.iteration = sim.iteration
                \/ sim'.alpha = sim.config.alpha /\ sim'.iteration = 0
           /\ sim'.iteration >= sim.iteration => sim'.alpha <= sim.alpha ]_vars

\* thirty ticks of a run with the defaults
C13_Witness ==
    /\ sim.config = LayoutConfigDefault
    /\ sim.iteration = 30
    /\ left = RunIterations - 30
    /\ sim.alpha < sim.config.alpha

\* C14: with the default configuration, started from alpha0 = 1.0,
\* is_finished() is false after fewer than 300 ticks and true after the 300th,
\* the first k with (1 - 0.0228)^k < 0.001, after which no tick counts; so
\* run(graph, 1000) ends with is_finished() true, after exactly 300 ticks.
C14_ConvergesAtTick300 ==
    /\ [](sim.config = LayoutConfigDefault =>
             /\ sim.iteration <= 300
             /\ is_finished(sim) <=> sim.iteration = 300
             /\ sim.iteration = 299 => sim.alpha >= sim.config.alpha_min
             /\ left > 0 => left + sim.iteration = RunIterations)
    /\ [][ (sim.config = LayoutConfigDefault /\ left > 0 /\ left' = 0) =>
              /\ is_finished(sim')
              /\ sim'.iteration = 300
              /\ left = RunIterations - 300 ]_vars

\* run(graph, 1000), called after one tick, has returned: 300 ticks of its own
C14_Witness ==
    /\ sim.config = LayoutConfigDefault
    /\ is_finished(sim)
    /\ sim.iteration = 300
    /\ ticks = 301
    /\ left = 0

RECURSIVE Ticked(_, _, _)
\* the simulation and graph after k calls of tick
Ticked(s, g, k) ==
    IF k = 0 THEN [sim |-> s, graph |-> g]
    ELSE LET before == Ticked(s, g, k - 1)
         IN  tick(before.sim, before.graph)

\* the ticks needed from alpha0 to reach alpha < alpha_min, if at most n
Needed(s, n) == {c \in 0..n : /\ Decayed(s.config.alpha, s.config.alpha_decay, c)
                                    < s.config.alpha_min
                               /\ \A k \in 0..(c - 1) :
                                     Decayed(s.config.alpha, s.config.alpha_decay, k)
                                        >= s.config.alpha_min}

\* C15: run(graph, n) returns, for every n and every configuration, also one
\* that never converges (alpha_decay = 0): it is initialize followed by exactly
\* min(n, c) ticks that count, c the number of ticks that bring alpha from
\* alpha0 below alpha_min, and it makes no tick once is_finished() is true.
C15_RunIsBounded ==
    \A n \in 0..MaxSimTicks :
        LET c == Needed(sim, n)
            m == IF c = {} THEN n ELSE CHOOSE k \in c : TRUE
            after == run(sim, graph, n)
            start == initialize(sim, graph)
        IN  /\ after.sim.iteration = m
            /\ after.sim.alpha = Decayed(sim.config.alpha, sim.config.alpha_decay, m)
            /\ m < n => is_finished(after.sim)
            /\ after = Ticked(start.sim, start.graph, m)
            /\ m > 0 => ~is_finished(Ticked(start.sim, start.graph, m - 1).sim)

\* run(graph, 3) has made its three ticks without converging, on the graph with
\* the pinned node
C15_Witness ==
    /\ sim.config.alpha_decay = 0
    /\ sim.iteration = 3 /\ ticks = 3
    /\ ~is_finished(sim)
    /\ node_count(graph) = 3
    /\ \A k \in 1..3 : graph.nodes[k].visual.x # 0 \/ graph.nodes[k].visual.y # 0
\* whether the node is at exactly (0, 0)
AtOrigin(node) == node.visual.x = 0 /\ node.visual.y = 0

\* the number of nodes at (0, 0) before the k-th node, in the order of nodes()
Rank(ns, k) == Cardinality({j \in 1..(k - 1) : AtOrigin(ns[j])})

\* the point at radius 10 and angle k * (360 / count) degrees
OnCircle(k, count) ==
    <<MulDiv(10 * PS, Cos(k * (360 \div count)), PS),
      MulDiv(10 * PS, Sin(k * (360 \div count)), PS)>>

RECURSIVE VSum(_, _)
\* the sum of the vectors f[j], j in S
VSum(f, S) ==
    IF S = {} THEN <<0, 0>>
    ELSE LET j == CHOOSE m \in S : TRUE
         IN  VAdd(f[j], VSum(f, S \ {j}))

\* the repulsion the k-th node receives from the j-th, fixed or not
RepulsionFrom(k, j) ==
    IF k < j
    THEN calculate_repulsion(Pos(graph.nodes[k]), Pos(graph.nodes[j]),
                             sim.config.charge_strength)
    ELSE VSub(<<0, 0>>,
              calculate_repulsion(Pos(graph.nodes[j]), Pos(graph.nodes[k]),
                                  sim.config.charge_strength))

\* the attraction of the k-th node towards the j-th, fixed or not
AttractionTo(k, j) ==
    VMul(calculate_attraction(Pos(graph.nodes[k]), Pos(graph.nodes[j]),
                              sim.config.link_distance, sim.config.link_strength),
         sim.alpha, AS)

\* the force on the k-th node: every other node repels it and every neighbor
\* attracts it, whatever their fixed flags
ForceOn(k) ==
    LET nb == graph_neighbors(graph, k)
    IN  VAdd(VAdd(VSum([j \in 1..Len(graph.nodes) |-> RepulsionFrom(k, j)],
                       (1..Len(graph.nodes)) \ {k}),
                  VSum([m \in 1..Len(nb) |-> AttractionTo(k, nb[m])], 1..Len(nb))),
             calculate_center_force(Pos(graph.nodes[k]), sim.config.center,
                                    sim.config.center_strength))

\* C17: a tick of a simulation that is not finished leaves every node whose
\* fixed flag is set as it is, while the force on every node sums the repulsion
\* of all other nodes and the attraction to all its neighbors, fixed ones
\* included; a node that is not fixed gets velocity += force * alpha, velocity
\* *= velocity_decay, position += velocity, alpha being the value the tick
\* started with.
C17_FixedNodesStayAndPush ==
    ~is_finished(sim) =>
        LET after == tick(sim, graph).graph
        IN  /\ Len(after.nodes) = Len(graph.nodes)
            /\ \A k \in 1..Len(graph.nodes) :
                  LET v == graph.nodes[k].visual
                      w == after.nodes[k].visual
                      f == ForceOn(k)
                  IN  /\ calculate_forces(sim, graph)[graph.nodes[k].id] = f
                      /\ IF v.fixed THEN w = v
                         ELSE /\ w.vx = FMul(FAdd(v.vx, FMul(f[1], sim.alpha, AS)),
                                             sim.config.velocity_decay, PS)
                              /\ w.vy = FMul(FAdd(v.vy, FMul(f[2], sim.alpha, AS)),
                                             sim.config.velocity_decay, PS)
                              /\ w.x = FAdd(v.x, w.vx)
                              /\ w.y = FAdd(v.y, w.vy)

\* after a tick that counted, the pinned node of the path a -> b -> c is still
\* at (3, 4) with no velocity, and it repels and attracts the first node, which
\* has moved
C17_Witness ==
    /\ node_count(graph) = 3
    /\ sim.iteration = 1
    /\ ticks >= 1
    /\ graph.nodes[2].visual.fixed
    /\ Pos(graph.nodes[2]) = <<3 * PS, 4 * PS>>
    /\ graph.nodes[2].visual.vx = 0 /\ graph.nodes[2].visual.vy = 0
    /\ ~graph.nodes[1].visual.fixed
    /\ graph.nodes[1].visual.vx # 0
    /\ RepulsionFrom(1, 2) # <<0, 0>>
    /\ AttractionTo(1, 2) # <<0, 0>>
    /\ 2 \in {graph_neighbors(graph, 1)[m] : m \in 1..Len(graph_neighbors(graph, 1))}

\* the graph without the positions and velocities of its nodes
Unplaced(g) ==
    [g EXCEPT !.nodes = [k \in 1..Len(g.nodes) |->
                            [g.nodes[k] EXCEPT !.visual.x = 0, !.visual.y = 0,
                                               !.visual.vx = 0, !.visual.vy = 0]]]

\* the velocities of the nodes
Velocities(g) == [k \in 1..Len(g.nodes) |-> <<g.nodes[k].visual.vx, g.nodes[k].visual.vy>>]

\* C18: initialize, tick and run change nothing of the graph but x, y, vx and
\* vy of the nodes it has: the number of nodes and of edges, every node's id,
\* label, type, fixed flag, weight, color and semantic attributes, every edge
\* with its endpoints, and the metadata stay as they are; a step that makes no
\* tick (initialize, run(graph, 0)) leaves vx and vy as well.
C18_OnlyVisualStateMoves ==
    [][ /\ Unplaced(graph') = Unplaced(graph)
        /\ node_count(graph') = node_count(graph)
        /\ edge_count(graph') = edge_count(graph)
        /\ metadata(graph') = metadata(graph)
        /\ ticks' = ticks => Velocities(graph') = Velocities(graph) ]_vars

\* ticks have moved the first node of the path a -> b -> c, and the second node
\* still has its flag, weight, colour and semantic attributes, the graph its
\* two edges and its metadata
C18_Witness ==
    /\ node_count(graph) = 3
    /\ edge_count(graph) = 2
    /\ ticks >= 2
    /\ sim.iteration >= 2
    /\ graph.nodes[1].visual.vx # 0
    /\ Pos(graph.nodes[1]) # <<0, 0>>
    /\ graph.nodes[2].visual.fixed
    /\ graph.nodes[2].visual.weight = 2 * PS
    /\ graph.nodes[2].visual.color = Some("#fff")
    /\ graph.nodes[2].semantic.external
    /\ graph.nodes[2].node_type = Datatype
    /\ metadata(graph) = MetadataDefault

\* the positions of the nodes
Positions(g) == [k \in 1..Len(g.nodes) |-> Pos(g.nodes[k])]

NoFixed(g) == \A k \in 1..Len(g.nodes) : ~g.nodes[k].visual.fixed

\* C19: on a graph with at least two nodes, none of them fixed, a tick made
\* while is_finished() is false changes the position of at least one node.
\* (Fails once calculate_attraction has produced NaN, C27: a node with an edge
\* to itself is at NaN after one tick, the others after the next, and from then
\* on a tick changes no position while alpha is still above alpha_min.)
C19_EveryTickMoves ==
    (node_count(graph) >= 2 /\ NoFixed(graph) /\ ~is_finished(sim))
        => Positions(tick(sim, graph).graph) # Positions(graph)

\* the component of the force f along the direction of d, in PS units
Along(f, d) == MulDiv(f[1], Unit(d)[1], Limb) + MulDiv(f[2], Unit(d)[2], Limb)

\* C20: with a negative charge_strength the force is repulsive: for two nodes
\* at distinct positions p1 and p2, neither of them NaN, the force that
\* calculate_forces adds to the node at p1 for this pair points away from p2
\* (positive dot product with p1 - p2), and the one added to the node at p2
\* points away from p1.
\* (Fails: calculate_repulsion returns normalize(p1 - p2) * (strength / d^2),
\* which for a negative strength points from p1 towards p2.)
C20_NegativeChargeRepels ==
    sim.config.charge_strength < 0 =>
        \A k, j \in 1..Len(graph.nodes) :
            LET p1 == Pos(graph.nodes[k])
                p2 == Pos(graph.nodes[j])
            IN  (k # j /\ ~VNaN(p1) /\ ~VNaN(p2) /\ p1 # p2)
                    => Along(RepulsionFrom(k, j), VSub(p1, p2)) > 0

\* whether the squared distance of two positions is below 1e-4
Degenerate(p1, p2) ==
    /\ ~VNaN(p1) /\ ~VNaN(p2)
    /\ Abs(p1[1] - p2[1]) < PS /\ Abs(p1[2] - p2[2]) < PS
    /\ ((p1[1] - p2[1]) * (p1[1] - p2[1]) + (p1[2] - p2[2]) * (p1[2] - p2[2])) * 10000
          < PS * PS

\* C21: for two positions whose squared distance is below 1e-4, equal ones in
\* particular, calculate_repulsion returns for every coefficient the same
\* vector, which has no NaN component and a norm below 0.1.
C21_DegeneracyGuard ==
    \A k, j \in 1..Len(graph.nodes) :
        LET p1 == Pos(graph.nodes[k])
            p2 == Pos(graph.nodes[j])
            f == calculate_repulsion(p1, p2, sim.config.charge_strength)
        IN  Degenerate(p1, p2) =>
               /\ ~VNaN(f)
               /\ (f[1] * f[1] + f[2] * f[2]) * 100 < PS * PS
               /\ \A strength \in ForceStrengths :
                     calculate_repulsion(p1, p2, strength) = f

\* two nodes sit on the same point (5, 12) with the coefficient -100, and the
\* guard gives the pair a small force that is not zero
C21_Witness ==
    /\ node_count(graph) = 2
    /\ Pos(graph.nodes[1]) = <<5 * PS, 12 * PS>>
    /\ Pos(graph.nodes[2]) = <<5 * PS, 12 * PS>>
    /\ sim.config.charge_strength = -100 * PS
    /\ RepulsionFrom(1, 2) # <<0, 0>>
    /\ ~VNaN(RepulsionFrom(1, 2))

\* C22: on a graph whose ids are distinct and resolved by the id map (the empty
\* graph, a single node and graphs with parallel edges included), in every
\* state of the simulation, initialize, tick and run return Ok: every key that
\* calculate_forces looks up in the force map has been inserted.
C22_SimulationNeverFails ==
    /\ result = "ok"
    /\ force_lookups(graph) \subseteq force_keys(graph)
    /\ tick_result(sim, graph) = "ok"
    /\ tick_result(initialize(sim, graph).sim, initialize(sim, graph).graph) = "ok"

\* ticks have been made on two nodes joined by two parallel edges, and the last
\* call returned Ok
C22_Witness ==
    /\ node_count(graph) = 2
    /\ edge_count(graph) = 2
    /\ graph.edges[1].source = graph.edges[2].source
    /\ graph.edges[1].target = graph.edges[2].target
    /\ ticks >= 2
    /\ sim.iteration >= 1
    /\ result = "ok"

\* the force on the k-th node of g under a configuration: repulsion by
\* charge_strength from every other node, attraction by link_distance and
\* link_strength to every neighbor, and the pull towards center
ForceWith(config, alpha, g, k) ==
    LET nb == graph_neighbors(g, k)
        others == (1..Len(g.nodes)) \ {k}
        push == [j \in others |->
                   IF k < j
                   THEN calculate_repulsion(Pos(g.nodes[k]), Pos(g.nodes[j]),
                                            config.charge_strength)
                   ELSE VSub(<<0, 0>>,
                             calculate_repulsion(Pos(g.nodes[j]), Pos(g.nodes[k]),
                                                 config.charge_strength))]
        pull == [m \in 1..Len(nb) |->
                   VMul(calculate_attraction(Pos(g.nodes[k]), Pos(g.nodes[nb[m]]),
                                             config.link_distance, config.link_strength),
                        alpha, AS)]
    IN  VAdd(VAdd(VSum(push, others), VSum(pull, 1..Len(nb))),
             VMul(VSub(config.center, Pos(g.nodes[k])), config.center_strength, PS))

\* C23: a step that changes the configuration (set_center, set_link_distance,
\* set_charge_strength) changes one of the fields center, link_distance and
\* charge_strength and nothing else: alpha, the tick counter and the graph with
\* every x, y, vx, vy stay as they are; the forces of the next tick are
\* computed from the new values.
C23_SettersNotRetroactive ==
    [][ sim'.config # sim.config =>
          /\ \E field \in {"center", "link_distance", "charge_strength"} :
                sim'.config = [sim.config EXCEPT ![field] = sim'.config[field]]
          /\ sim'.alpha = sim.alpha
          /\ sim'.iteration = sim.iteration
          /\ graph' = graph
          /\ ticks' = ticks
          /\ \A k \in 1..Len(graph.nodes) :
                calculate_forces(sim', graph')[graph.nodes[k].id]
                   = ForceWith(sim'.config, sim.alpha, graph, k) ]_vars

\* the three setters were called, the energy is the one ticks have left, and a
\* tick made after set_center(100, 200) has pulled a node towards the new
\* center
C23_Witness ==
    /\ sim.config.center = <<100 * PS, 200 * PS>>
    /\ sim.config.link_distance = 50 * PS
    /\ sim.config.charge_strength = -100 * PS
    /\ sim.iteration >= 1
    /\ sim.alpha < sim.config.alpha
    /\ ~is_finished(sim)
    /\ \E k \in 1..Len(graph.nodes) :
          graph.nodes[k].visual.x > 20 * PS /\ graph.nodes[k].visual.y > 40 * PS

\* C24: while the graph has at most one node, the density of metadata() is 0,
\* and it is 0 after update_metadata(), also when the node has edges to itself:
\* update_metadata writes the density only for more than one node, and a graph
\* with at most one node never had more.
C24_DensityZeroUpToOneNode ==
    node_count(graph) <= 1 =>
        /\ metadata(graph).density = Quotient(0, 1)
        /\ metadata(update_metadata(graph)).density = Quotient(0, 1)
        /\ metadata(update_metadata(graph)).density.num = 0

\* update_metadata has counted the edge from the single node to itself
C24_Witness ==
    /\ node_count(graph) = 1
    /\ edge_count(graph) >= 1
    /\ graph.edges[1].source = graph.edges[1].target
    /\ metadata(graph).property_count = edge_count(graph)
    /\ metadata(graph).max_degree >= 1
    /\ metadata(graph).density.num = 0

\* the node type the claim gives for a class type
NodeTypeFor(class_type) ==
    CASE class_type = "owl:Class" -> Class
      [] class_type = "rdfs:Class" -> Class
      [] class_type = "rdfs:Datatype" -> Datatype
      [] class_type = "xsd:*" -> Datatype
      [] OTHER -> Special(class_type)

\* whether the characters s, u, b, c, l, a, s, s stand in a row in the name
HasSubclass(name) ==
    \E i \in 1..Len(name) :
        /\ i + 7 <= Len(name)
        /\ name[i] = "s" /\ name[i + 1] = "u" /\ name[i + 2] = "b" /\ name[i + 3] = "c"
        /\ name[i + 4] = "l" /\ name[i + 5] = "a" /\ name[i + 6] = "s" /\ name[i + 7] = "s"

\* the edge type the claim gives for a property type
EdgeTypeFor(property_type) ==
    CASE property_type.tag = "ObjectProperty" -> [tag |-> "ObjectProperty"]
      [] property_type.tag = "DatatypeProperty" -> [tag |-> "DatatypeProperty"]
      [] property_type.tag = "AnnotationProperty"
           -> [tag |-> "Special", name |-> <<"a", "n", "n", "o", "t", "a", "t", "i", "o", "n">>]
      [] OTHER -> IF HasSubclass(property_type.name) THEN [tag |-> "SubClass"]
                  ELSE [tag |-> "Special", name |-> property_type.name]

\* C25: in a graph that from_ontology has built, the type of every node is the
\* one the fixed mapping gives for the class type ("owl:Class", "rdfs:Class" ->
\* Class; "rdfs:Datatype", "xsd:*" -> Datatype; any other s -> Special(s)), the
\* type of every edge the one it gives for the property type (ObjectProperty,
\* DatatypeProperty kept; AnnotationProperty -> Special("annotation"); another
\* name containing "subclass" -> SubClass, else Special(name)), and the
\* functional, inverse functional, transitive and symmetric flags and the
\* cardinality of every property stand unchanged on its edge.
C25_TypeMapping ==
    (built.some /\ built.val.ok) =>
        /\ node_count(built.val.val) = Len(onto.classes)
        /\ edge_count(built.val.val) = Len(onto.properties)
        /\ \A k \in 1..Len(onto.classes) :
              /\ built.val.val.nodes[k].node_type = NodeTypeFor(onto.classes[k].class_type)
              /\ built.val.val.nodes[k].semantic.external = onto.classes[k].external
              /\ built.val.val.nodes[k].semantic.iri = onto.classes[k].iri
        /\ \A k \in 1..Len(onto.properties) :
              /\ edges(built.val.val)[k].edge_type
                    = EdgeTypeFor(onto.properties[k].property_type)
              /\ edges(built.val.val)[k].characteristics
                    = onto.properties[k].characteristics

\* a graph was built from a class of the wildcard datatype type and a property
\* named "SubClassOf", which does not contain "subclass": a Datatype node and a
\* Special edge that carries the flags and the cardinality (0, 2)
C25_Witness ==
    /\ built.some /\ built.val.ok
    /\ onto.classes[1].class_type = "xsd:*"
    /\ built.val.val.nodes[1].node_type = Datatype
    /\ onto.properties[1].property_type.tag = "SpecialProperty"
    /\ onto.properties[1].property_type.name
          = <<"S", "u", "b", "C", "l", "a", "s", "s", "O", "f">>
    /\ edges(built.val.val)[1].edge_type.tag = "Special"
    /\ edges(built.val.val)[1].characteristics.functional
    /\ edges(built.val.val)[1].characteristics.inverse_functional
    /\ edges(built.val.val)[1].characteristics.cardinality = Some(<<Some(0), Some(2)>>)

\* the part of the force on the k-th node that is neither repulsion nor the
\* pull towards the center
AttractionOn(k) ==
    VSub(calculate_forces(sim, graph)[graph.nodes[k].id],
         VAdd(VSum([j \in 1..Len(graph.nodes) |-> RepulsionFrom(k, j)],
                   (1..Len(graph.nodes)) \ {k}),
              calculate_center_force(Pos(graph.nodes[k]), sim.config.center,
                                     sim.config.center_strength)))

\* the number of edges from the k-th node to the j-th
EdgesFromTo(k, j) ==
    Cardinality({e \in 1..Len(graph.edges) :
                    graph.edges[e].source = k /\ graph.edges[e].target = j})

\* the positions of all nodes are numbers
Placed == \A k \in 1..Len(graph.nodes) : ~VNaN(Pos(graph.nodes[k]))

\* C26: for two nodes a and b at distinct positions, the edges a -> b add to the
\* force on a, once per edge, the attraction calculate_attraction gives for
\* (a, b) scaled by the current alpha, and nothing to the force on b; with a
\* positive link_strength that attraction points from a towards b when their
\* distance exceeds link_distance and from a away from b when it is smaller.
C26_AttractionAlongOutgoingEdges ==
    (Placed /\ node_count(graph) = 2 /\ Pos(graph.nodes[1]) # Pos(graph.nodes[2])
        /\ EdgesFromTo(1, 1) = 0 /\ EdgesFromTo(2, 2) = 0) =>
        \A a, b \in 1..2 :
            a # b =>
               LET pa == Pos(graph.nodes[a])
                   pb == Pos(graph.nodes[b])
                   pull == calculate_attraction(pa, pb, sim.config.link_distance,
                                                sim.config.link_strength)
                   scaled == VMul(pull, sim.alpha, AS)
                   m == EdgesFromTo(a, b)
               IN  /\ AttractionOn(a) = <<m * scaled[1], m * scaled[2]>>
                   /\ (m > 0 /\ EdgesFromTo(b, a) = 0) => AttractionOn(b) = <<0, 0>>
                   /\ sim.config.link_strength > 0 =>
                         /\ Norm(VSub(pb, pa)) > sim.config.link_distance
                               => Along(pull, VSub(pb, pa)) > 0
                         /\ Norm(VSub(pb, pa)) < sim.config.link_distance
                               => Along(pull, VSub(pb, pa)) < 0

\* after a tick, node a is still farther than link_distance from node b; its
\* two parallel edges a -> b pull it towards b with twice the attraction of
\* one, and b receives none
C26_Witness ==
    /\ ticks = 1
    /\ Placed
    /\ node_count(graph) = 2
    /\ EdgesFromTo(1, 2) = 2
    /\ Norm(VSub(Pos(graph.nodes[2]), Pos(graph.nodes[1]))) > sim.config.link_distance
    /\ AttractionOn(1) # <<0, 0>>
    /\ AttractionOn(1)[1]
          = 2 * AttractionTo(1, 2)[1]
    /\ Along(AttractionOn(1), VSub(Pos(graph.nodes[2]), Pos(graph.nodes[1]))) > 0
    /\ AttractionOn(2) = <<0, 0>>

\* C27: calculate_attraction returns a vector without NaN for every pair of
\* positions, equal ones included, and so after any tick (on a graph with an
\* edge from a node to itself, on an edge whose endpoints coincide, before
\* initialize with all nodes at (0, 0)) x, y, vx and vy of every node are
\* numbers.
\* (Fails: delta.normalize() of a zero delta is NaN whatever the guarded
\* distance is, and the tick writes it into the node.)
C27_AttractionIsFinite ==
    /\ \A k \in 1..Len(graph.nodes) :
          /\ ~VNaN(Pos(graph.nodes[k]))
          /\ graph.nodes[k].visual.vx # NaN
          /\ graph.nodes[k].visual.vy # NaN
    /\ \A k, j \in 1..Len(graph.nodes) :
          ~VNaN(calculate_attraction(Pos(graph.nodes[k]), Pos(graph.nodes[j]),
                                     sim.config.link_distance, sim.config.link_strength))

\* the orders in which a map with the keys S can yield its entries
Orders(S) ==
    {order \in [1..Cardinality(S) -> S] :
        \A i, j \in 1..Cardinality(S) : i # j => order[i] # order[j]}

\* C28: a tick gives the same x, y, vx, vy to every node whatever the order in
\* which apply_forces visits the entries of the force map, every force being
\* computed from the positions at the start of the tick; the state after a
\* tick is a function of the state before it.
C28_TickIsOrderIndependent ==
    ~is_finished(sim) =>
        LET forces == calculate_forces(sim, graph)
        IN  \A order \in Orders(DOMAIN forces) :
                /\ apply_forces_in_order(sim, graph, forces, order)
                      = tick(sim, graph).graph
                /\ \A k \in 1..Len(graph.nodes) :
                      ~graph.nodes[k].visual.fixed =>
                         apply_forces_in_order(sim, graph, forces, order).nodes[k].visual
                            = Integrate(graph.nodes[k].visual, forces[graph.nodes[k].id], sim)

\* two ticks have moved the first and the third of three nodes, and the force
\* map of the next tick has three entries, which can be visited in six orders
C28_Witness ==
    /\ node_count(graph) = 3
    /\ ticks = 2
    /\ sim.iteration = 2
    /\ ~is_finished(sim)
    /\ Placed
    /\ graph.nodes[1].visual.vx # 0
    /\ graph.nodes[3].visual.vx # 0
    /\ Cardinality(Orders(DOMAIN calculate_forces(sim, graph))) = 6

\* C29: initialize, and run through it, places a node at exactly (0, 0) on the
\* circle of radius 10 whether or not the node is fixed, the flag staying set,
\* and leaves vx and vy of every node as they were, so that the velocities of
\* earlier ticks are those the next run starts from.
C29_InitializeIgnoresFixedAndVelocity ==
    LET after == initialize(sim, graph).graph
    IN  /\ \A k \in 1..Len(graph.nodes) :
              (graph.nodes[k].visual.fixed /\ AtOrigin(graph.nodes[k])) =>
                  /\ Pos(after.nodes[k])
                        = OnCircle(Rank(graph.nodes, k), node_count(graph))
                  /\ ~AtOrigin(after.nodes[k])
                  /\ after.nodes[k].visual.fixed
        /\ Velocities(after) = Velocities(graph)
        /\ run(sim, graph, 0).graph = after

\* a tick has moved a while the pinned b stayed at (0, 0); initialize has then
\* put b, still fixed, at angle 0 as the only node at the origin, and a has the
\* velocity of the tick while the tick counter is back at 0
C29_Witness ==
    /\ node_count(graph) = 2
    /\ graph.nodes[1].id = "a"
    /\ graph.nodes[2].visual.fixed
    /\ Pos(graph.nodes[2]) = OnCircle(0, 2)
    /\ graph.nodes[2].visual.vx = 0 /\ graph.nodes[2].visual.vy = 0
    /\ graph.nodes[1].visual.vx # 0
    /\ ticks = 1
    /\ sim.iteration = 0

\* the calls of the binding that need a graph leave the binding as it is and
\* return "No graph loaded"
RefusedWithoutGraph(w) ==
    /\ init_simulation(w) = [web |-> w, res |-> Err(NoGraphLoaded)]
    /\ web_tick(w) = [web |-> w, res |-> Err(NoGraphLoaded)]
    /\ \A n \in 0..MaxWebTicks :
          run_simulation(w, n) = [web |-> w, res |-> Err(NoGraphLoaded)]
    /\ get_graph_data(w) = Err(NoGraphLoaded)
    /\ get_statistics(w) = Err(NoGraphLoaded)
    /\ get_node_count(w) = 0
    /\ get_edge_count(w) = 0

\* loadOntology of the text: rejected, the binding as it was; accepted, the graph
\* built from the text and the simulation as it was
LoadedOrKept(w, json) ==
    LET after == load_ontology(w, json)
        accepted == /\ parse(json).ok
                    /\ validate(parse(json).val).ok
                    /\ from_ontology(parse(json).val).ok
    IN  /\ after.res.ok <=> accepted
        /\ ~after.res.ok => after.web = w /\ after.res.err # NoGraphLoaded
        /\ after.res.ok =>
              /\ after.web.graph = Some(from_ontology(parse(json).val).val)
              /\ after.web.simulation = w.simulation

\* C30: while no loadOntology has succeeded, initSimulation, runSimulation,
\* tick, getGraphData and getStatistics return "No graph loaded" and change
\* nothing, and getNodeCount and getEdgeCount return 0; a loadOntology that
\* fails in parsing, validation or graph building leaves the graph, or the
\* absence of one, in place; a successful one replaces the graph and leaves
\* alpha and the tick counter of the simulation as they are.
C30_BindingWithoutGraph ==
    /\ [](/\ ~graph.some => RefusedWithoutGraph(WebVowl)
          /\ \A json \in WebDocuments : LoadedOrKept(WebVowl, json))
    /\ [][ /\ graph.some => graph'.some
           /\ ~graph.some =>
                 /\ sim'.alpha = sim.alpha /\ sim'.iteration = sim.iteration
                 /\ ticks' = ticks
                 /\ graph'.some => result' = "ok"
                 /\ ~graph'.some => result' # "ok" \/ graph' = graph
           /\ result' = NoGraphLoaded => ~graph.some /\ graph' = graph /\ sim' = sim
         ]_vars

\* after two ticks on a loaded graph a second loadOntology has put the graph of
\* three classes, every node at (0, 0), in its place, and the simulation still
\* has the reduced alpha and the counter 2
C30_Witness ==
    /\ graph.some
    /\ \E json \in WebDocuments :
          /\ load_ontology(WebVowl, json).res.ok
          /\ graph.val = from_ontology(parse(json).val).val
    /\ node_count(graph.val) = 3 /\ edge_count(graph.val) = 2
    /\ sim.iteration = 2
    /\ sim.alpha < sim.config.alpha
    /\ ticks = 2
    /\ result = "ok"

====
